---- MODULE Spec2Model ----
(***************************************************************************)
(* Beat / tempo-region annotation engine (src/lib/annotate.svelte.ts).     *)
(*                                                                         *)
(* Times are integers counting ticks of 1/TicksPerSecond seconds; the      *)
(* arithmetic of the engine on them is exact (rationals are kept as        *)
(* reduced fractions), so IEEE rounding noise is outside the model.        *)
(* JavaScript arrays are 0-based: a region's `index` and a beat's          *)
(* `regionIndex` are kept 0-based as in the source, the TLA+ sequences     *)
(* holding them are 1-based.                                               *)
(***************************************************************************)
EXTENDS Integers, Sequences, FiniteSets, TLC

\* ------------------------------------------------------------------------
\* Bounds of the model
\* ------------------------------------------------------------------------
\* track duration, in ticks
DurationTicks == 5
\* number of user-beat ids one engine may issue
MaxUserBeatIds == 4
\* number of calls made on the engine in one session
MaxCalls == 4
\* number of region ids one engine may issue: one per beat id and one more
MaxRegionIds == MaxUserBeatIds + 1
\* latest tick of a tapped beat when the tempo estimate is checked on its own
MaxTapTick == 9

\* ------------------------------------------------------------------------
\* Program constants
\* ------------------------------------------------------------------------
TicksPerSecond == 10
MAX_TEMPO == 300
MIN_BEAT_SPACING == (60 * TicksPerSecond) \div MAX_TEMPO
\* JavaScript `undefined` where a number is expected (array read past the end)
Undefined == -1000000

duration == DurationTicks
\* requested times: on the track, at its end and up to one spacing past it
TimeInputs == 0..(duration + MIN_BEAT_SPACING)
BpmInputs == {6000, 12000}
\* the projector draws drawBuffer seconds around the viewport
drawBuffer == 30 * TicksPerSecond
\* viewports: the initial one (buffer over the whole track) and three others
\* whose buffered window is the tail of the track from tick 2, its head up to
\* tick 2, and a stretch past its end
ViewportInputs ==
  {[startTime |-> 0, endTime |-> 0],
   [startTime |-> drawBuffer + 2, endTime |-> drawBuffer + 4],
   [startTime |-> -drawBuffer - 4, endTime |-> -drawBuffer + 2],
   [startTime |-> drawBuffer + 2 * DurationTicks, endTime |-> drawBuffer + 3 * DurationTicks]}

\* `twin` is a second engine that receives every call made on the first one
\* except the setViewport calls
VARIABLES regions, userBeatsById, orphans, selectedRegionId,
          nextRegionId, nextUserBeatId, nextAutoBeatId, viewport, twin, last, calls

vars == <<regions, userBeatsById, orphans, selectedRegionId,
          nextRegionId, nextUserBeatId, nextAutoBeatId, viewport, twin, last, calls>>

\* ------------------------------------------------------------------------
\* Numbers: null, NaN or an exact fraction n/d in lowest terms, d > 0
\* ------------------------------------------------------------------------
RECURSIVE Gcd(_, _)
Gcd(a, b) == IF b = 0 THEN a ELSE Gcd(b, a % b)

Abs(x) == IF x < 0 THEN -x ELSE x

NullNum == [k |-> "null", n |-> 0, d |-> 1]
NaN == [k |-> "nan", n |-> 0, d |-> 1]
Frac(n, d) ==
  LET s == IF d < 0 THEN -1 ELSE 1
      g == Gcd(Abs(n), Abs(d))
  IN [k |-> "num", n |-> (s * n) \div g, d |-> (s * d) \div g]
IntNum(n) == [k |-> "num", n |-> n, d |-> 1]

\* comparisons in which an `undefined` operand makes the result false
Lt(a, b) == a # Undefined /\ b # Undefined /\ a < b
Le(a, b) == a # Undefined /\ b # Undefined /\ a <= b

\* a time read from the model's integers: `undefined` in arithmetic gives NaN
NumOf(t) == IF t = Undefined THEN NaN ELSE IntNum(t)

\* a + b and a < b, a <= b on numbers; a comparison with NaN is false
FracAdd(a, b) ==
  IF a.k # "num" \/ b.k # "num" THEN NaN ELSE Frac(a.n * b.d + b.n * a.d, a.d * b.d)
FracLt(a, b) == a.k = "num" /\ b.k = "num" /\ a.n * b.d < b.n * a.d
FracLe(a, b) == a.k = "num" /\ b.k = "num" /\ a.n * b.d <= b.n * a.d

\* Math.round(a / b) for b > 0: floor(a/b + 1/2)
RoundDiv(a, b) == (2 * a + b) \div (2 * b)

\* Array.prototype.findIndex, given the positions (1-based) of the elements
\* that pass the test: the 0-based index of the first of them, -1 when none
FindIndex(passing) ==
  IF passing = {} THEN -1
  ELSE (CHOOSE i \in passing : \A j \in passing : i <= j) - 1

RECURSIVE SumSeq(_)
SumSeq(s) == IF Len(s) = 0 THEN 0 ELSE Head(s) + SumSeq(Tail(s))

MinOf(S) == CHOOSE x \in S : \A y \in S : x <= y
Min2(a, b) == IF a <= b THEN a ELSE b
Max2(a, b) == IF a >= b THEN a ELSE b


\* ------------------------------------------------------------------------
\* Array.prototype.sort() without a comparator: elements are ordered by
\* their string conversion, compared by UTF-16 code unit.  A distance of
\* x ticks is the number x / TicksPerSecond seconds.
\* ------------------------------------------------------------------------
RECURSIVE Digits(_)
Digits(n) == IF n < 10 THEN <<48 + n>> ELSE Digits(n \div 10) \o <<48 + (n % 10)>>

NumberToString(x) ==
  LET a == Abs(x)
      whole == a \div TicksPerSecond
      frac == a % TicksPerSecond
  IN (IF x < 0 THEN <<45>> ELSE <<>>) \o Digits(whole)
       \o (IF frac = 0 THEN <<>> ELSE <<46>> \o Digits(frac))

RECURSIVE StrLess(_, _)
StrLess(a, b) ==
  IF Len(b) = 0 THEN FALSE
  ELSE IF Len(a) = 0 THEN TRUE
  ELSE IF Head(a) # Head(b) THEN Head(a) < Head(b)
  ELSE StrLess(Tail(a), Tail(b))

RECURSIVE InsertSorted(_, _)
InsertSorted(s, x) ==
  IF Len(s) = 0 THEN <<x>>
  ELSE IF StrLess(NumberToString(x), NumberToString(Head(s))) THEN <<x>> \o s
  ELSE <<Head(s)>> \o InsertSorted(Tail(s), x)

RECURSIVE DefaultSort(_)
DefaultSort(s) ==
  IF Len(s) = 0 THEN <<>>
  ELSE InsertSorted(DefaultSort(SubSeq(s, 1, Len(s) - 1)), s[Len(s)])

\* ------------------------------------------------------------------------
\* Tempo estimation
\* ------------------------------------------------------------------------
\* tempo.value is null or {meanPeriod, stddev}: `value` holds meanPeriod (null
\* when tempo.value is null) and `stddev` the square of stddev, in
\* (beats per tick)^2, so that it stays a fraction
TappedTempo(value, stddev) ==
  [type |-> "tapped", value |-> value, stddev |-> stddev,
   bpm |-> NullNum, phaseOffset |-> NullNum]
FixedTempo(bpm, phaseOffset) ==
  [type |-> "fixed", value |-> NullNum, stddev |-> NullNum,
   bpm |-> bpm, phaseOffset |-> phaseOffset]

isFixedTempo(region) == region.tempo.type = "fixed"
isTappedTempo(region) == region.tempo.type = "tapped"

Dists(userBeats) ==
  [i \in 1..(Len(userBeats) - 1) |-> userBeats[i + 1].time - userBeats[i].time]

\* the distances a candidate for the initial estimate: those below 1.2 * minDist
Candidates(dists) ==
  LET minDist == MinOf({dists[i] : i \in 1..Len(dists)})
      IsCandidate(dist) == 5 * dist < 6 * minDist
  IN SelectSeq(dists, IsCandidate)

\* five or more sorted candidates lose Math.ceil(length * 0.2) at both ends
Trimmed(sorted) ==
  IF Len(sorted) >= 5
  THEN SubSeq(sorted, (Len(sorted) + 4) \div 5 + 1, Len(sorted) - (Len(sorted) + 4) \div 5)
  ELSE sorted

SumAndCount(candidates) == [sum |-> SumSeq(candidates), count |-> Len(candidates)]

\* initialEstimate as the pair (sum, count) of the candidate distances
InitialEstimate(dists) == SumAndCount(Trimmed(DefaultSort(Candidates(dists))))

\* Math.round(dist / initialEstimate) for every distance
Periods(dists, est) ==
  [i \in 1..Len(dists) |-> RoundDiv(dists[i] * est.count, est.sum)]

\* an estimate that would average the distances without counting the periods in each
MeanDist(dists, est) == Frac(SumSeq(dists), Len(dists))

\* sum / count of the meanPeriod block, given the distances and initialEstimate
MeanPeriod(dists, est) ==
  IF est.count = 0 \/ est.sum = 0 THEN NaN
  ELSE Frac(SumSeq(dists), SumSeq(Periods(dists, est)))

\* the value of tempo.value.meanPeriod, in ticks
MeanPeriodOf(userBeats) == MeanPeriod(Dists(userBeats), InitialEstimate(Dists(userBeats)))

RECURSIVE SumFrac(_)
SumFrac(s) == IF Len(s) = 0 THEN IntNum(0) ELSE FracAdd(Head(s), SumFrac(Tail(s)))

\* (meanBpm - bpm)^2 of one interval of `periods` periods, in (beats per tick)^2
SquaredDeviation(dist, periods, sumD, sumP) ==
  Frac((sumP * dist - periods * sumD) * (sumP * dist - periods * sumD),
       (sumD * dist) * (sumD * dist))

OverCount(sum, count) == Frac(sum.n, sum.d * count)

\* the variance of the per-interval tempo around 1 / meanPeriod, the square
\* of tempo.value.stddev
Variance(dists, periods) ==
  OverCount(SumFrac([i \in 1..Len(dists) |->
                       SquaredDeviation(dists[i], periods[i], SumSeq(dists), SumSeq(periods))]),
            Len(dists))

StddevSquared(dists, est) ==
  IF est.count = 0 \/ est.sum = 0 THEN NaN
  ELSE Variance(dists, Periods(dists, est))

\* tempo.value for the distances between the beats, given initialEstimate
TempoValue(dists, est) == TappedTempo(MeanPeriod(dists, est), StddevSquared(dists, est))

\* an estimate that would leave tempo.value as it was below two beats
recomputeTempoKeeping(region) ==
  IF Len(region.userBeats) < 2 THEN region
  ELSE [region EXCEPT !.tempo = TempoValue(Dists(region.userBeats),
                                           InitialEstimate(Dists(region.userBeats)))]

recomputeTempo(region) ==
  IF Len(region.userBeats) = 0 THEN region
  ELSE IF Len(region.userBeats) < 2 THEN [region EXCEPT !.tempo = TappedTempo(NullNum, NullNum)]
  ELSE [region EXCEPT !.tempo = TempoValue(Dists(region.userBeats),
                                           InitialEstimate(Dists(region.userBeats)))]

\* localBeatPeriod of every beat of a tapped region
setTimesBetweenBeats(region) ==
  LET ub == region.userBeats
      onePeriod == region.tempo.value
      between(i) == ub[i].time - ub[i - 1].time
      nPeriods(i) == RoundDiv(between(i) * onePeriod.d, onePeriod.n)
      localBeatPeriod(i) ==
        IF i = 1 \/ onePeriod.k # "num" THEN NullNum
        ELSE IF nPeriods(i) > 0 THEN Frac(between(i), nPeriods(i))
        ELSE NullNum
  IN [region EXCEPT !.userBeats =
        [i \in 1..Len(ub) |-> [ub[i] EXCEPT !.localBeatPeriod = localBeatPeriod(i)]]]

\* the fixed period is 60 / bpm seconds; bpm is kept in hundredths
PeriodNumerator == 6000 * TicksPerSecond

PhaseOffsetOf(region) ==
  LET b == region.tempo.bpm
      ub == region.userBeats
      T(i) == ub[i].time - region.startTime
      nPeriods(i) == RoundDiv(T(i) * b.n, PeriodNumerator)
      errTimesBpm == [i \in 1..(Len(ub) - 1) |->
                        nPeriods(i + 1) * PeriodNumerator - T(i + 1) * b.n]
  IN IF b.k # "num" \/ b.n = 0 \/ region.startTime = Undefined THEN NaN
     ELSE Frac(-SumSeq(errTimesBpm), b.n * (Len(ub) - 1))

recomputePhaseOffset(region) ==
  IF Len(region.userBeats) = 0 THEN region
  ELSE IF Len(region.userBeats) < 2 THEN [region EXCEPT !.tempo.phaseOffset = IntNum(0)]
  ELSE [region EXCEPT !.tempo.phaseOffset = PhaseOffsetOf(region)]

\* ------------------------------------------------------------------------
\* The engine
\* ------------------------------------------------------------------------
Engine ==
  [regions |-> regions, userBeatsById |-> userBeatsById, orphans |-> orphans,
   selectedRegionId |-> selectedRegionId, nextRegionId |-> nextRegionId,
   nextUserBeatId |-> nextUserBeatId, nextAutoBeatId |-> nextAutoBeatId,
   viewport |-> viewport]

EmptyEngine ==
  [regions |-> <<>>, userBeatsById |-> <<>>, orphans |-> <<>>,
   selectedRegionId |-> 0, nextRegionId |-> 0, nextUserBeatId |-> 0,
   nextAutoBeatId |-> 0, viewport |-> [startTime |-> 0, endTime |-> 0]]

\* a renumbering that leaves the beats' regionIndex as it was
reassignRegionsOnly(rs) ==
  [i \in 1..Len(rs) |-> [rs[i] EXCEPT !.index = i - 1]]

reassignRegionIndices(rs) ==
  [i \in 1..Len(rs) |->
     [rs[i] EXCEPT !.index = i - 1,
                   !.userBeats = [j \in 1..Len(rs[i].userBeats) |->
                                    [rs[i].userBeats[j] EXCEPT !.regionIndex = i - 1]]]]

\* the first loop of onRegionsChanged: tempo of the regions at the positions in `changed`
RecomputeRegions(rs, changed) ==
  [i \in 1..Len(rs) |->
     IF i \notin changed THEN rs[i]
     ELSE IF isTappedTempo(rs[i]) THEN setTimesBetweenBeats(recomputeTempo(rs[i]))
     ELSE recomputePhaseOffset(rs[i])]

\* ------------------------------------------------------------------------
\* The projector
\* ------------------------------------------------------------------------
\* the times t, t + period, ... below upTo; the loop ends at once when t or
\* upTo is NaN and after one round when period is
RECURSIVE StepsFrom(_, _, _)
StepsFrom(t, period, upTo) ==
  IF FracLt(t, upTo) THEN <<t>> \o StepsFrom(FracAdd(t, period), period, upTo)
  ELSE <<>>

\* 60 / bpm, in ticks
PeriodOf(bpm) == IF bpm.k = "num" /\ bpm.n # 0 THEN Frac(PeriodNumerator, bpm.n) ELSE NaN

\* the beats projected after the user beats from position i on
RECURSIVE TappedBeatsFrom(_, _)
TappedBeatsFrom(region, i) ==
  LET ub == region.userBeats
      period == region.tempo.value
      upTo == IF i < Len(ub) THEN NumOf(ub[i + 1].time) ELSE NumOf(region.endTime)
  IN IF i > Len(ub) THEN <<>>
     ELSE StepsFrom(FracAdd(NumOf(ub[i].time), period), period, upTo)
            \o TappedBeatsFrom(region, i + 1)

computeAutoBeats(region) ==
  IF isTappedTempo(region) /\ region.tempo.value.k # "null"
  THEN TappedBeatsFrom(region, 1)
  ELSE IF isFixedTempo(region)
  THEN StepsFrom(FracAdd(NumOf(region.startTime), region.tempo.phaseOffset),
                 PeriodOf(region.tempo.bpm), NumOf(region.endTime))
  ELSE <<>>

drawStart(e) == Max2(e.viewport.startTime - drawBuffer, 0)
drawEnd(e) == Min2(e.viewport.endTime + drawBuffer, duration)

\* the test that puts a region into regionsInView
InView(e, r) == Le(drawStart(e), r.endTime) /\ Lt(r.startTime, drawEnd(e))

\* the projected times that are not skipped
Placed(e, region) ==
  LET Drawn(t) == ~(FracLt(t, IntNum(drawStart(e))) \/ FracLe(IntNum(drawEnd(e)), t))
  IN SelectSeq(computeAutoBeats(region), Drawn)

\* a projector that would build every auto beat anew
RecycleNothing(old, placed, nextId, index) ==
  [k \in 1..Len(placed) |->
     [id |-> nextId + k, time |-> placed[k], regionIndex |-> index]]

\* a projector that would number the auto beats of every region from 1
RecycleRenumbering(old, placed, nextId, index) ==
  [k \in 1..Len(placed) |-> [id |-> k, time |-> placed[k], regionIndex |-> index]]

\* the auto beats of a region in view: objects are reused by position, further
\* ones are created with the next ids, surplus ones are cut off
Recycle(old, placed, nextId, index) ==
  [k \in 1..Len(placed) |->
     IF k <= Len(old) THEN [old[k] EXCEPT !.time = placed[k]]
     ELSE [id |-> nextId + (k - Len(old)), time |-> placed[k], regionIndex |-> index]]

\* a projector that would leave a region out of view as it is
OutOfViewKept(region) == region

\* a region that is not in view loses its auto beats
OutOfView(region) == [region EXCEPT !.autoBeats = <<>>]

\* drawAutopoints for the regions from position i on
RECURSIVE DrawFrom(_, _)
DrawFrom(e, i) ==
  IF i > Len(e.regions) THEN e
  ELSE LET region == e.regions[i]
           placed == Placed(e, region)
           fresh == Max2(Len(placed) - Len(region.autoBeats), 0)
       IN IF InView(e, region)
          THEN DrawFrom([e EXCEPT
                           !.regions[i].autoBeats =
                              Recycle(region.autoBeats, placed, e.nextAutoBeatId, region.index),
                           !.nextAutoBeatId = e.nextAutoBeatId + fresh],
                        i + 1)
          ELSE DrawFrom([e EXCEPT !.regions[i] = OutOfView(region)], i + 1)

drawAutopoints(e) == DrawFrom(e, 1)

\* the first loop of onRegionsChanged(changedRegions)
Recomputed(e, changed) == [e EXCEPT !.regions = RecomputeRegions(e.regions, changed)]

\* onRegionsChanged(changedRegions) up to the save
onRegionsChanged(e, changed) == drawAutopoints(Recomputed(e, changed))

\* ------------------------------------------------------------------------
\* Saving
\* ------------------------------------------------------------------------
\* Math.round(t * 10^6) / 10^6 on a time of t ticks
roundTime(t) ==
  LET micros == RoundDiv(t * 1000000, TicksPerSecond)
  IN (micros * TicksPerSecond) \div 1000000

\* a save that would take inferredBeats from the auto beats on display
saveStateFromCache(rs) ==
  [i \in 1..Len(rs) |->
     [tempo |-> IF rs[i].tempo.type = "fixed"
                THEN [type |-> "fixed", bpm |-> rs[i].tempo.bpm]
                ELSE [type |-> "tapped", bpm |-> NullNum],
      offbeatsMarked |-> rs[i].offbeatsMarked,
      markedBeats |-> [j \in 1..Len(rs[i].userBeats) |-> roundTime(rs[i].userBeats[j].time)],
      inferredBeats |-> [k \in 1..Len(rs[i].autoBeats) |-> rs[i].autoBeats[k].time]]]

saveState(rs) ==
  [i \in 1..Len(rs) |->
     [tempo |-> IF rs[i].tempo.type = "fixed"
                THEN [type |-> "fixed", bpm |-> rs[i].tempo.bpm]
                ELSE [type |-> "tapped", bpm |-> NullNum],
      offbeatsMarked |-> rs[i].offbeatsMarked,
      markedBeats |-> [j \in 1..Len(rs[i].userBeats) |-> roundTime(rs[i].userBeats[j].time)],
      inferredBeats |-> computeAutoBeats(rs[i])]]

\* the objects opts.save receives from onRegionsChanged(regions, doSave), e
\* being the engine when saveState is reached
Saved(e, doSave) == IF doSave THEN <<saveState(e.regions)>> ELSE <<>>

\* a loop of computeAutoBeats over the region never ends: the step is not
\* positive and the first t is below the loop's bound
Diverges(region) ==
  IF isTappedTempo(region) /\ region.tempo.value.k # "null"
  THEN LET ub == region.userBeats
           period == region.tempo.value
           upTo(i) == IF i < Len(ub) THEN NumOf(ub[i + 1].time) ELSE NumOf(region.endTime)
       IN /\ period.k = "num" /\ period.n <= 0
          /\ \E i \in 1..Len(ub) : FracLt(FracAdd(NumOf(ub[i].time), period), upTo(i))
  ELSE IF isFixedTempo(region)
  THEN /\ PeriodOf(region.tempo.bpm).k = "num" /\ PeriodOf(region.tempo.bpm).n <= 0
       /\ FracLt(FracAdd(NumOf(region.startTime), region.tempo.phaseOffset),
                 NumOf(region.endTime))
  ELSE FALSE

\* drawAutopoints calls computeAutoBeats on the regions in view, saveState on all
DrawHangs(e) == \E i \in 1..Len(e.regions) : InView(e, e.regions[i]) /\ Diverges(e.regions[i])
SaveHangs(e) == \E i \in 1..Len(e.regions) : Diverges(e.regions[i])


\* the beat object stored under its own id is in some region's userBeats
IsLive(rs, obj) ==
  \E i \in 1..Len(rs) : \E j \in 1..Len(rs[i].userBeats) : rs[i].userBeats[j].id = obj

LiveIds(rs) ==
  UNION {{rs[i].userBeats[j].id : j \in 1..Len(rs[i].userBeats)} : i \in 1..Len(rs)}

LiveBeat(rs, obj) ==
  LET ri == CHOOSE i \in 1..Len(rs) :
              \E j \in 1..Len(rs[i].userBeats) : rs[i].userBeats[j].id = obj
      bi == CHOOSE j \in 1..Len(rs[ri].userBeats) : rs[ri].userBeats[j].id = obj
  IN rs[ri].userBeats[bi]

\* a beat object no region holds any more keeps the fields it had when it left
Gone(beat) == [gone |-> TRUE, regionIndex |-> beat.regionIndex,
               isTempoChange |-> beat.isTempoChange]
NotGone == [gone |-> FALSE, regionIndex |-> 0, isTempoChange |-> FALSE]

\* userBeatsById.get(id): "undefined", or the fields of the beat object found
GetBeat(e, id) ==
  IF id \notin 1..Len(e.userBeatsById) \/ e.userBeatsById[id] = 0
  THEN [found |-> FALSE, obj |-> 0, regionIndex |-> 0, isTempoChange |-> FALSE]
  ELSE LET obj == e.userBeatsById[id]
       IN IF IsLive(e.regions, obj)
          THEN [found |-> TRUE, obj |-> obj,
                regionIndex |-> LiveBeat(e.regions, obj).regionIndex,
                isTempoChange |-> LiveBeat(e.regions, obj).isTempoChange]
          ELSE [found |-> TRUE, obj |-> obj,
                regionIndex |-> e.orphans[obj].regionIndex,
                isTempoChange |-> e.orphans[obj].isTempoChange]

\* what an operation hands back: the engine afterwards and what the caller saw
\* `passed` lists the objects the save callback received during the call
Result(e, outcome, saves, id, ret) ==
  [engine |-> e, outcome |-> outcome, saves |-> saves, id |-> id, ret |-> ret,
   passed |-> <<>>]

\* the call returns normally, the save callback having received `passed`
Returned(e, passed, id, ret) ==
  [engine |-> e, outcome |-> "ok", saves |-> Len(passed), id |-> id, ret |-> ret,
   passed |-> passed]

\* the call never returns: it is caught in a loop of computeAutoBeats
Hung(e, id) == Result(e, "diverges", 0, id, 0)

SavedAfter(drawn, doSave, id, ret) ==
  IF doSave /\ SaveHangs(drawn) THEN Hung(drawn, id)
  ELSE Returned(drawn, Saved(drawn, doSave), id, ret)

DrawnAndSaved(recomputed, doSave, id, ret) ==
  IF DrawHangs(recomputed) THEN Hung(recomputed, id)
  ELSE SavedAfter(drawAutopoints(recomputed), doSave, id, ret)

\* the end of a call in onRegionsChanged(changed, doSave): tempo recompute,
\* projection, then the save
Changed(e, changed, doSave, id, ret) ==
  DrawnAndSaved(Recomputed(e, changed), doSave, id, ret)

NewRegion(id, index, startTime, endTime, userBeats, tempo, offbeatsMarked) ==
  [id |-> id, index |-> index, startTime |-> startTime, endTime |-> endTime,
   userBeats |-> userBeats, autoBeats |-> <<>>, tempo |-> tempo,
   offbeatsMarked |-> offbeatsMarked]

NewUserBeat(id, regionIndex, isTempoChange, time, localBeatPeriod) ==
  [id |-> id, regionIndex |-> regionIndex, isTempoChange |-> isTempoChange, time |-> time,
   localBeatPeriod |-> localBeatPeriod]

InsertAt(s, at, x) == SubSeq(s, 1, at) \o <<x>> \o SubSeq(s, at + 1, Len(s))
RemoveAt(s, at) == SubSeq(s, 1, at - 1) \o SubSeq(s, at + 1, Len(s))

\* a rejection that would already have selected the containing region
rejectSpacingSelecting(e, containingRegion) ==
  Result([e EXCEPT !.selectedRegionId = containingRegion.id], "rejectedSpacing", 0, 0, 0)

\* `return null` of a spacing-floor violation: nothing has been touched yet
rejectSpacing(e, containingRegion) == Result(e, "rejectedSpacing", 0, 0, 0)

\* a split that would give the new region the new beat only and leave the
\* later beats where they were
splitRegionAlone(rs, pos, insertAt, newBeat, newRegionId) ==
  LET containingRegion == rs[pos]
      newRegion ==
        NewRegion(newRegionId, containingRegion.index + 1, newBeat.time,
                  containingRegion.endTime, <<newBeat>>, TappedTempo(NullNum, NullNum),
                  containingRegion.offbeatsMarked)
      cut == [rs EXCEPT ![pos].endTime = newBeat.time]
  IN reassignRegionIndices(InsertAt(cut, Min2(containingRegion.index + 1, Len(rs)), newRegion))

\* the split of the region at position pos: the beats from insertAt on move,
\* behind newBeat, into a new region spliced in right after it
splitRegion(rs, pos, insertAt, newBeat, newRegionId) ==
  LET containingRegion == rs[pos]
      ub == containingRegion.userBeats
      newRegionIndex == containingRegion.index + 1
      removedFromContaining == SubSeq(ub, insertAt + 1, Len(ub))
      newRegion ==
        NewRegion(newRegionId, newRegionIndex, newBeat.time, containingRegion.endTime,
                  <<newBeat>> \o removedFromContaining,
                  IF isFixedTempo(containingRegion)
                  THEN FixedTempo(containingRegion.tempo.bpm, IntNum(0))
                  ELSE TappedTempo(NullNum, NullNum),
                  containingRegion.offbeatsMarked)
      cut == [rs EXCEPT ![pos].userBeats = SubSeq(ub, 1, insertAt),
                        ![pos].endTime = newBeat.time]
  IN reassignRegionIndices(InsertAt(cut, Min2(newRegionIndex, Len(rs)), newRegion))

addPoint(e0, time, isTempoChange) ==
  LET created == Len(e0.regions) = 0
      e == IF created
           THEN [e0 EXCEPT
                   !.regions = <<NewRegion(e0.nextRegionId + 1, 0, time, duration, <<>>,
                                           TappedTempo(NullNum, NullNum), FALSE)>>,
                   !.nextRegionId = e0.nextRegionId + 1,
                   !.selectedRegionId = e0.nextRegionId + 1]
           ELSE e0
      rs == e.regions
      InRegion(r) == Le(r.startTime, time) /\ Lt(time, r.endTime)
      containingRegionIndex ==
        IF Lt(time, rs[1].startTime) THEN 0 ELSE FindIndex({k \in 1..Len(rs) : InRegion(rs[k])})
  IN
  IF containingRegionIndex < 0 THEN Result(e, "rejectedNoRegion", 0, 0, 0)
  ELSE
  LET pos == containingRegionIndex + 1
      containingRegion == rs[pos]
      ub == containingRegion.userBeats
      IsAfter(p) == time < p.time
      firstIdxAfter == FindIndex({k \in 1..Len(ub) : IsAfter(ub[k])})
      insertAt == IF firstIdxAfter >= 0 THEN firstIdxAfter ELSE Len(ub)
      \* pointAfter / pointBefore: "beat", "null" or "undefined"
      afterKind ==
        IF insertAt < Len(ub) THEN "beat"
        ELSE IF containingRegion.index < Len(rs) - 1
             THEN (IF Len(rs[containingRegion.index + 2].userBeats) > 0
                   THEN "beat" ELSE "undefined")
             ELSE "null"
      pointAfter ==
        IF insertAt < Len(ub) THEN ub[insertAt + 1]
        ELSE rs[containingRegion.index + 2].userBeats[1]
      beforeKind ==
        IF insertAt > 0 THEN "beat"
        ELSE IF containingRegion.index > 0
             THEN (IF Len(rs[containingRegion.index].userBeats) > 0
                   THEN "beat" ELSE "undefined")
             ELSE "null"
      pointBefore ==
        IF insertAt > 0 THEN ub[insertAt]
        ELSE rs[containingRegion.index].userBeats[1]
      newId == e.nextUserBeatId + 1
  IN
  IF afterKind = "undefined" THEN Result(e, "threw", 0, 0, 0)
  ELSE IF afterKind = "beat" /\ pointAfter.time - time < MIN_BEAT_SPACING
  THEN rejectSpacing(e, containingRegion)
  ELSE IF isTempoChange
  THEN
    IF ~(containingRegionIndex = 0 /\ insertAt = 0)
    THEN \* split the containing region
      LET newRegionIndex == containingRegion.index + 1
          newBeat == NewUserBeat(newId, newRegionIndex, TRUE, time, NullNum)
          at == Min2(newRegionIndex, Len(rs))
          spliced == splitRegion(rs, pos, insertAt, newBeat, e.nextRegionId + 1)
          posAfter == IF at < pos THEN pos + 1 ELSE pos
      IN Changed(
                  [e EXCEPT
                     !.regions = spliced,
                     !.userBeatsById = Append(e.userBeatsById, newId),
                     !.orphans = Append(e.orphans, NotGone),
                     !.nextUserBeatId = newId,
                     !.nextRegionId = e.nextRegionId + 1,
                     !.selectedRegionId = e.nextRegionId + 1],
                  {at + 1, posAfter}, TRUE, newId, 0)
    ELSE \* tempo change at the very start of region 0
      LET newBeat == NewUserBeat(newId, containingRegionIndex, TRUE, time, NullNum)
          moved == [rs EXCEPT ![pos].startTime = time]
      IN Changed(
                  [e EXCEPT
                     !.regions = moved,
                     !.userBeatsById =
                        Append(e.userBeatsById, IF insertAt < Len(ub) THEN ub[insertAt + 1].id ELSE 0),
                     !.orphans = Append(e.orphans, Gone(newBeat)),
                     !.nextUserBeatId = newId,
                     !.selectedRegionId = containingRegion.id],
                  {pos}, TRUE, newId, 0)
  ELSE IF beforeKind = "undefined" THEN Result(e, "threw", 0, 0, 0)
  ELSE IF beforeKind = "beat" /\ time - pointBefore.time < MIN_BEAT_SPACING
  THEN rejectSpacing(e, containingRegion)
  ELSE
    LET newBeat == NewUserBeat(newId, containingRegionIndex, FALSE, time, IntNum(0))
        inserted == [rs EXCEPT ![pos].userBeats = InsertAt(ub, insertAt, newBeat),
                               ![pos].startTime = Min2(time, containingRegion.startTime)]
    IN Changed(
                [e EXCEPT
                   !.regions = inserted,
                   !.userBeatsById = Append(e.userBeatsById, newId),
                   !.orphans = Append(e.orphans, NotGone),
                   !.nextUserBeatId = newId,
                   !.selectedRegionId = containingRegion.id],
                {pos}, TRUE, newId, 0)


\* the beat objects of `beats` leave the region list: their fields are frozen
Orphan(objs, beats) ==
  [o \in 1..Len(objs) |->
     IF \E j \in 1..Len(beats) : beats[j].id = o
     THEN Gone(beats[CHOOSE j \in 1..Len(beats) : beats[j].id = o])
     ELSE objs[o]]

\* a merge that would leave the previous region's endTime where it was
mergeIntoPreviousKeepingEnd(rs, pos) ==
  LET containingRegion == rs[pos]
      ub == containingRegion.userBeats
      prevPos == containingRegion.index
      from == Max2(1, Len(ub) - 1)
      merged == [rs EXCEPT
                   ![prevPos].userBeats = rs[prevPos].userBeats \o SubSeq(ub, from + 1, Len(ub))]
  IN reassignRegionIndices(RemoveAt(merged, containingRegion.index + 1))

\* the merge of the region at position pos into the one before it: only the
\* beats from index max(1, length - 1) on are carried over
mergeIntoPrevious(rs, pos) ==
  LET containingRegion == rs[pos]
      ub == containingRegion.userBeats
      prevPos == containingRegion.index
      from == Max2(1, Len(ub) - 1)
      merged == [rs EXCEPT
                   ![prevPos].userBeats = rs[prevPos].userBeats \o SubSeq(ub, from + 1, Len(ub)),
                   ![prevPos].endTime = containingRegion.endTime]
  IN reassignRegionIndices(RemoveAt(merged, containingRegion.index + 1))

deletePoint(e, id) ==
  LET beat == GetBeat(e, id)
      rs == e.regions
  IN
  IF ~beat.found THEN Result(e, "threw", 0, id, 0)
  ELSE IF beat.regionIndex \notin 0..(Len(rs) - 1) THEN Result(e, "threw", 0, id, 0)
  ELSE
  LET pos == beat.regionIndex + 1
      containingRegion == rs[pos]
      ub == containingRegion.userBeats
  IN
  IF beat.isTempoChange
  THEN
    IF Len(ub) = 0 THEN Result(e, "threw", 0, id, 0)
    ELSE IF containingRegion.index > 0
    THEN \* merge into the previous region
      LET prevPos == containingRegion.index
          previousRegion == rs[prevPos]
          from == Max2(1, Len(ub) - 1)
          spliced == mergeIntoPrevious(rs, pos)
      IN Changed(
                  [e EXCEPT
                     !.regions = spliced,
                     !.orphans = Orphan(e.orphans, SubSeq(ub, 1, from)),
                     !.selectedRegionId =
                        IF e.selectedRegionId = containingRegion.id
                        THEN previousRegion.id ELSE e.selectedRegionId],
                  {prevPos}, TRUE, id, 0)
    ELSE Changed(e, {}, TRUE, id, 0)
  ELSE
    LET HasId(b) == b.id = id
        idxInRegion == FindIndex({k \in 1..Len(ub) : HasId(ub[k])})
        \* splice(-1, 1) removes the last element
        removeAt == IF idxInRegion >= 0 THEN idxInRegion + 1 ELSE Len(ub)
        removed == IF Len(ub) = 0 THEN <<>> ELSE <<ub[removeAt]>>
        rest == IF Len(ub) = 0 THEN ub ELSE RemoveAt(ub, removeAt)
    IN IF Len(rest) > 0
       THEN Changed(
                     [e EXCEPT
                        !.regions = [rs EXCEPT ![pos].userBeats = rest,
                                               ![pos].startTime = rest[1].time],
                        !.orphans = Orphan(e.orphans, removed)],
                     {pos}, TRUE, id, 0)
       ELSE Changed(
                     [e EXCEPT
                        !.regions = reassignRegionIndices(RemoveAt(rs, containingRegion.index + 1)),
                        !.orphans = Orphan(e.orphans, removed),
                        !.selectedRegionId =
                           IF e.selectedRegionId = containingRegion.id
                           THEN 0 ELSE e.selectedRegionId],
                     {}, TRUE, id, 0)

\* beat.time = t, for the beat object `obj` wherever the region list holds it
SetBeatTime(rs, obj, t) ==
  [i \in 1..Len(rs) |->
     [rs[i] EXCEPT !.userBeats =
        [j \in 1..Len(rs[i].userBeats) |->
           IF rs[i].userBeats[j].id = obj
           THEN [rs[i].userBeats[j] EXCEPT !.time = t]
           ELSE rs[i].userBeats[j]]]]

\* the time tryMovePoint moves the beat to; beatIdx is 0-based, -1 if not found
Clamp(rs, pos, beatIdx, toTime) ==
  LET containingRegion == rs[pos]
      ub == containingRegion.userBeats
      c1 == IF beatIdx > 0
            THEN Max2(toTime, ub[beatIdx].time + MIN_BEAT_SPACING)
            ELSE IF pos > 1 /\ Len(rs[pos - 1].userBeats) > 0
            THEN Max2(toTime, rs[pos - 1].userBeats[Len(rs[pos - 1].userBeats)].time
                                + MIN_BEAT_SPACING)
            ELSE toTime
      c2 == IF beatIdx < Len(ub) - 1
            THEN Min2(c1, ub[beatIdx + 2].time - MIN_BEAT_SPACING)
            ELSE IF containingRegion.index < Len(rs) - 1
            THEN Min2(c1, rs[containingRegion.index + 2].userBeats[1].time - MIN_BEAT_SPACING)
            ELSE c1
  IN IF containingRegion.index = Len(rs) - 1 /\ beatIdx = Len(ub) - 1
     THEN Min2(c2, duration)
     ELSE c2

\* a move that would leave the bounds of the regions where they were
moveBoundsUntouched(timed, pos, beatIdx, clamped) == timed

\* the first beat of a region takes the region's startTime and the previous
\* region's endTime along
moveBounds(timed, pos, beatIdx, clamped) ==
  IF beatIdx = 0
  THEN [i \in 1..Len(timed) |->
          IF i = pos THEN [timed[i] EXCEPT !.startTime = clamped]
          ELSE IF i = pos - 1 THEN [timed[i] EXCEPT !.endTime = clamped]
          ELSE timed[i]]
  ELSE timed

\* a move that would re-estimate the tempo and redraw at every phase of the drag
afterMoveRecomputing(e, pos, what, id, clamped) ==
  Changed(e, {pos}, what = "end", id, clamped)

\* a move that would select the region of the moved beat, as addPoint does
afterMoveSelecting(e, pos, what, id, clamped) ==
  IF what = "end"
  THEN Changed([e EXCEPT !.selectedRegionId = e.regions[pos].id], {pos}, TRUE, id, clamped)
  ELSE Result([e EXCEPT !.selectedRegionId = e.regions[pos].id], "ok", 0, id, clamped)

\* the end of tryMovePoint: only the phase "end" reaches onRegionsChanged
afterMove(e, pos, what, id, clamped) ==
  IF what = "end"
  THEN Changed(e, {pos}, TRUE, id, clamped)
  ELSE Result(e, "ok", 0, id, clamped)

tryMovePoint(e, id, toTime, what) ==
  LET beat == GetBeat(e, id)
      rs == e.regions
  IN
  IF ~beat.found THEN Result(e, "threw", 0, id, 0)
  ELSE IF beat.regionIndex \notin 0..(Len(rs) - 1) THEN Result(e, "threw", 0, id, 0)
  ELSE
  LET pos == beat.regionIndex + 1
      containingRegion == rs[pos]
      ub == containingRegion.userBeats
      IsBeat(b) == b.id = beat.obj
      beatIdx == FindIndex({k \in 1..Len(ub) : IsBeat(ub[k])})
      nextIsEmpty == /\ ~(beatIdx < Len(ub) - 1)
                     /\ containingRegion.index < Len(rs) - 1
                     /\ Len(rs[containingRegion.index + 2].userBeats) = 0
  IN
  IF nextIsEmpty THEN Result(e, "threw", 0, id, 0)
  ELSE
  LET clamped == Clamp(rs, pos, beatIdx, toTime)
      timed == SetBeatTime(rs, beat.obj, clamped)
      bounded == moveBounds(timed, pos, beatIdx, clamped)
  IN afterMove([e EXCEPT !.regions = bounded], pos, what, id, clamped)


setRegionType(e, regionId, type) ==
  LET rs == e.regions
      HasId(r) == r.id = regionId
      idx == FindIndex({k \in 1..Len(rs) : HasId(rs[k])})
  IN
  IF idx < 0 THEN Result(e, "threw", 0, regionId, 0)
  ELSE
  LET pos == idx + 1
      region == rs[pos]
      value == region.tempo.value
      bpm == IF value.k = "null" THEN IntNum(6000)
             ELSE IF value.k = "nan" THEN NaN
             ELSE IntNum(RoundDiv(PeriodNumerator * value.d, value.n))
  IN IF type = "fixed" /\ isTappedTempo(region)
     THEN Changed(
                   [e EXCEPT !.regions[pos].tempo = FixedTempo(bpm, IntNum(0))], {pos}, TRUE, regionId, 0)
     ELSE IF type = "tapped" /\ isFixedTempo(region)
     THEN Changed(
                   [e EXCEPT !.regions[pos].tempo = TappedTempo(NullNum, NullNum)], {pos}, TRUE, regionId, 0)
     ELSE Result(e, "noop", 0, regionId, 0)

setRegionFixedTempo(e, regionId, bpm) ==
  LET rs == e.regions
      HasId(r) == r.id = regionId
      idx == FindIndex({k \in 1..Len(rs) : HasId(rs[k])})
  IN
  IF idx < 0 THEN Result(e, "threw", 0, regionId, 0)
  ELSE IF isFixedTempo(rs[idx + 1])
  THEN Changed([e EXCEPT !.regions[idx + 1].tempo.bpm = IntNum(bpm)],
                               {idx + 1}, TRUE, regionId, 0)
  ELSE Result(e, "noop", 0, regionId, 0)
\* a setViewport without the early return for an unchanged viewport
setViewportAlwaysDrawing(e, v) ==
  DrawnAndSaved([e EXCEPT !.viewport = v], FALSE, 0, 0)

setViewport(e, v) ==
  IF v.startTime = e.viewport.startTime /\ v.endTime = e.viewport.endTime
  THEN Result(e, "noop", 0, 0, 0)
  ELSE DrawnAndSaved([e EXCEPT !.viewport = v], FALSE, 0, 0)

\* ------------------------------------------------------------------------
\* Saving and loading
\* ------------------------------------------------------------------------
isSortedAscending(arr) ==
  \A i \in 2..Len(arr) : ~(arr[i] < arr[i - 1])

\* arr[0] of a JavaScript array
First(arr) == IF Len(arr) = 0 THEN Undefined ELSE arr[1]

LoadStart(saved, i) == First(saved[i].markedBeats)
LoadEnd(saved, i) == IF i < Len(saved) THEN First(saved[i + 1].markedBeats) ELSE duration

\* the constructor rejects the saved object
LoadThrows(saved) ==
  \E i \in 1..Len(saved) :
    \/ Le(LoadEnd(saved, i), LoadStart(saved, i))
    \/ ~isSortedAscending(saved[i].markedBeats)

\* number of beats in the saved regions before region i
BeatsBefore(saved, i) == SumSeq([k \in 1..(i - 1) |-> Len(saved[k].markedBeats)])

\* the engine the constructor has built from `saved` when it reaches
\* onRegionsChanged(regions, false)
Loaded(saved) ==
  LET loadedRegions ==
        [i \in 1..Len(saved) |->
           NewRegion(i, i - 1, LoadStart(saved, i), LoadEnd(saved, i),
                     [j \in 1..Len(saved[i].markedBeats) |->
                        NewUserBeat(BeatsBefore(saved, i) + j, i - 1, j = 1,
                                    saved[i].markedBeats[j], NullNum)],
                     IF saved[i].tempo.type = "fixed"
                     THEN FixedTempo(saved[i].tempo.bpm, IntNum(0))
                     ELSE TappedTempo(NullNum, NullNum),
                     saved[i].offbeatsMarked)]
      total == BeatsBefore(saved, Len(saved) + 1)
  IN [EmptyEngine EXCEPT
        !.regions = reassignRegionIndices(loadedRegions),
        !.userBeatsById = [o \in 1..total |-> o],
        !.orphans = [o \in 1..total |-> NotGone],
        !.nextRegionId = Len(saved),
        !.nextUserBeatId = total]

\* Annotate({duration, save, loadSaved: saved}) when it does not throw
Annotate(saved) == onRegionsChanged(Loaded(saved), 1..Len(saved))


\* a setter that would take any id
setSelectedRegionIdUnchecked(e, id) ==
  Result([e EXCEPT !.selectedRegionId = id], "ok", 0, id, 0)

\* set selectedRegionId(id); id 0 stands for null
setSelectedRegionId(e, id) ==
  IF id # 0 /\ ~(\E i \in 1..Len(e.regions) : e.regions[i].id = id)
  THEN Result(e, "noop", 0, id, 0)
  ELSE Result([e EXCEPT !.selectedRegionId = id], "ok", 0, id, 0)

\* get selectedRegion(): the region found, null, or a throw
selectedRegion(e) ==
  IF e.selectedRegionId = 0 THEN "null"
  ELSE IF \E i \in 1..Len(e.regions) : e.regions[i].id = e.selectedRegionId THEN "region"
  ELSE "threw"

\* save()
save(e) == SavedAfter(e, TRUE, 0, 0)

\* ------------------------------------------------------------------------
\* State machine: one engine, driven through its public operations
\* ------------------------------------------------------------------------
\* what the last call was and what its caller observed; `before` is the
\* region structure an accepted addPoint of a plain beat started from
\* ids and times of the user beats and the bounds of every region
Structure(rs) ==
  [i \in 1..Len(rs) |->
     [startTime |-> rs[i].startTime, endTime |-> rs[i].endTime,
      beats |-> [j \in 1..Len(rs[i].userBeats) |->
                   <<rs[i].userBeats[j].id, rs[i].userBeats[j].time>>]]]

\* `estimate` is the initialEstimate of recomputeTempo when that block was run
\* on its own: the sum and the count it divides
NoEstimate == [sum |-> 0, count |-> 0]

Last(op, r, time, isTempoChange, before) ==
  [op |-> op, outcome |-> r.outcome, saves |-> r.saves, id |-> r.id, ret |-> r.ret,
   time |-> time, isTempoChange |-> isTempoChange, before |-> before, what |-> "",
   saved |-> <<>>, passed |-> r.passed, bpm |-> 0,
   estimate |-> NoEstimate]

Install(e) ==
  /\ regions' = e.regions
  /\ userBeatsById' = e.userBeatsById
  /\ orphans' = e.orphans
  /\ selectedRegionId' = e.selectedRegionId
  /\ nextRegionId' = e.nextRegionId
  /\ nextUserBeatId' = e.nextUserBeatId
  /\ nextAutoBeatId' = e.nextAutoBeatId
  /\ viewport' = e.viewport

Init ==
  /\ regions = <<>>
  /\ userBeatsById = <<>>
  /\ orphans = <<>>
  /\ selectedRegionId = 0
  /\ nextRegionId = 0
  /\ nextUserBeatId = 0
  /\ nextAutoBeatId = 0
  /\ viewport = [startTime |-> 0, endTime |-> 0]
  /\ twin = EmptyEngine
  /\ last = [op |-> "new", outcome |-> "ok", saves |-> 0, id |-> 0, ret |-> 0,
             time |-> 0, isTempoChange |-> FALSE, before |-> <<>>, what |-> "",
             saved |-> <<>>, passed |-> <<>>, bpm |-> 0,
             estimate |-> NoEstimate]
  /\ calls = 0

\* the call returns r on the engine and t on its twin
Done(op, r, t) ==
  /\ Install(r.engine)
  /\ twin' = t.engine
  /\ last' = Last(op, r, 0, FALSE, <<>>)

AddPointDone(r, t, time, isTempoChange) ==
  /\ Install(r.engine)
  /\ twin' = t.engine
  /\ last' = Last("addPoint", r, IF r.outcome = "ok" THEN time ELSE 0,
                  r.outcome = "ok" /\ isTempoChange,
                  IF r.outcome = "ok" /\ ~isTempoChange THEN Structure(regions) ELSE <<>>)

AddPoint ==
  \E time \in TimeInputs, isTempoChange \in BOOLEAN :
    /\ nextUserBeatId < MaxUserBeatIds
    /\ nextRegionId < MaxRegionIds
    /\ AddPointDone(addPoint(Engine, time, isTempoChange),
                    addPoint(twin, time, isTempoChange), time, isTempoChange)

\* the ids a caller may pass: every id issued so far, whether or not a region
\* still holds its beat, and one that was never issued
BeatIdInputs == 1..(nextUserBeatId + 1)
RegionIdInputs == {regions[i].id : i \in 1..Len(regions)}

DeletePoint ==
  \E id \in BeatIdInputs :
    Done("deletePoint", deletePoint(Engine, id), deletePoint(twin, id))

TryMovePointDone(r, t, what) ==
  /\ Install(r.engine)
  /\ twin' = t.engine
  /\ last' = [Last("tryMovePoint", r, 0, FALSE, <<>>) EXCEPT !.what = what]

TryMovePoint ==
  \E id \in BeatIdInputs, toTime \in TimeInputs, what \in {"start", "move", "end"} :
    TryMovePointDone(tryMovePoint(Engine, id, toTime, what),
                     tryMovePoint(twin, id, toTime, what), what)

SetRegionTypeDone(r, t, type) ==
  /\ Install(r.engine)
  /\ twin' = t.engine
  /\ last' = [Last("setRegionType", r, 0, FALSE, <<>>) EXCEPT !.what = type]

SetRegionType ==
  \E regionId \in RegionIdInputs, type \in {"fixed", "tapped"} :
    SetRegionTypeDone(setRegionType(Engine, regionId, type),
                      setRegionType(twin, regionId, type), type)

SetRegionFixedTempoDone(r, t, bpm) ==
  /\ Install(r.engine)
  /\ twin' = t.engine
  /\ last' = [Last("setRegionFixedTempo", r, 0, FALSE, <<>>) EXCEPT !.bpm = bpm]

SetRegionFixedTempo ==
  \E regionId \in RegionIdInputs, bpm \in BpmInputs :
    SetRegionFixedTempoDone(setRegionFixedTempo(Engine, regionId, bpm),
                            setRegionFixedTempo(twin, regionId, bpm), bpm)

\* the twin does not receive the call
SetViewport ==
  \E v \in ViewportInputs :
    Done("setViewport", setViewport(Engine, v), Result(twin, "ok", 0, 0, 0))

\* the constructor called with a saved object by the holder of engine e: the
\* new engine replaces e unless the constructor throws
\* a constructor that would end in onRegionsChanged(regions) with doSave left
\* at its default
loadSaving(e, saved) ==
  IF LoadThrows(saved) THEN Result(e, "threw", 0, 0, 0)
  ELSE Changed(Loaded(saved), 1..Len(saved), TRUE, 0, 0)

load(e, saved) ==
  IF LoadThrows(saved) THEN Result(e, "threw", 0, 0, 0)
  ELSE Changed(Loaded(saved), 1..Len(saved), FALSE, 0, 0)

\* the track is opened again: a new engine is constructed from what save() returns
Reload ==
  Done("load", load(Engine, saveState(regions)), load(twin, saveState(twin.regions)))

\* any sequence of addPoint and deletePoint calls
Edit ==
  \/ AddPoint /\ UNCHANGED calls
  \/ DeletePoint /\ UNCHANGED calls

SpecEdit == Init /\ [][Edit]_vars

Counted == calls < MaxCalls /\ calls' = calls + 1

\* any session of at most MaxCalls calls
Next ==
  \/ Counted /\ AddPoint
  \/ Counted /\ DeletePoint
  \/ Counted /\ TryMovePoint
  \/ Counted /\ SetRegionType
  \/ Counted /\ SetRegionFixedTempo
  \/ Counted /\ SetViewport
  \/ Counted /\ Reload

Spec == Init /\ [][Next]_vars

\* ------------------------------------------------------------------------
\* Sessions in which the caller passes any argument: region ids that were
\* never issued or belong to a region that is gone, and any bpm
\* ------------------------------------------------------------------------
InvalidBpmInputs == {-6000, 0, 100 * MAX_TEMPO}
AnyBpmInputs == BpmInputs \cup InvalidBpmInputs
AnyRegionIdInputs == 1..(nextRegionId + 1)

\* a call that never returns ends the session
Running == last.outcome # "diverges"

SetRegionTypeOfAny ==
  \E regionId \in AnyRegionIdInputs, type \in {"fixed", "tapped"} :
    SetRegionTypeDone(setRegionType(Engine, regionId, type),
                      setRegionType(twin, regionId, type), type)

SetRegionFixedTempoOfAny ==
  \E regionId \in AnyRegionIdInputs, bpm \in AnyBpmInputs :
    SetRegionFixedTempoDone(setRegionFixedTempo(Engine, regionId, bpm),
                            setRegionFixedTempo(twin, regionId, bpm), bpm)

SetSelectedRegionId ==
  \E id \in {0} \cup AnyRegionIdInputs :
    Done("setSelectedRegionId", setSelectedRegionId(Engine, id), setSelectedRegionId(twin, id))

Save == Done("save", save(Engine), save(twin))

NextAny ==
  \/ Running /\ Counted /\ AddPoint
  \/ Running /\ Counted /\ DeletePoint
  \/ Running /\ Counted /\ TryMovePoint
  \/ Running /\ Counted /\ SetRegionTypeOfAny
  \/ Running /\ Counted /\ SetRegionFixedTempoOfAny
  \/ Running /\ Counted /\ SetViewport
  \/ Running /\ Counted /\ SetSelectedRegionId
  \/ Running /\ Counted /\ Save
  \/ Running /\ Counted /\ Reload

SpecAny == Init /\ [][NextAny]_vars

\* ------------------------------------------------------------------------
\* Sessions on a single beat: the first beat is added, dragged about, and its
\* region is given any kind and any bpm, in up to MaxCalls + 1 calls
\* ------------------------------------------------------------------------
CountedDrag == calls < MaxCalls + 1 /\ calls' = calls + 1

NextDrag ==
  \/ Running /\ CountedDrag /\ nextUserBeatId = 0 /\ AddPoint
  \/ Running /\ CountedDrag /\ TryMovePoint
  \/ Running /\ CountedDrag /\ SetRegionTypeOfAny
  \/ Running /\ CountedDrag /\ SetRegionFixedTempoOfAny

SpecDrag == Init /\ [][NextDrag]_vars

\* ------------------------------------------------------------------------
\* Sessions on two beats under a moving viewport: the first two calls may
\* add beats, then the beats are dragged about, their regions change kind and
\* the viewport moves, in up to MaxCalls + 1 calls
\* ------------------------------------------------------------------------
NextView ==
  \/ CountedDrag /\ calls < 2 /\ AddPoint
  \/ CountedDrag /\ TryMovePoint
  \/ CountedDrag /\ SetRegionType
  \/ CountedDrag /\ SetViewport

SpecView == Init /\ [][NextView]_vars


\* ------------------------------------------------------------------------
\* The constructor on its own: any saved object of one or two regions, each
\* with up to two marked beats in any order
\* ------------------------------------------------------------------------
SavedTimes == {0, 2, 4}
SavedBeats ==
  {<<>>} \cup {<<a>> : a \in SavedTimes} \cup {<<a, b>> : a \in SavedTimes, b \in SavedTimes}
SavedRegions ==
  {[tempo |-> t, offbeatsMarked |-> FALSE, markedBeats |-> mb, inferredBeats |-> <<>>] :
     t \in {[type |-> "tapped", bpm |-> NullNum], [type |-> "fixed", bpm |-> IntNum(12000)]},
     mb \in SavedBeats}
SavedInputs ==
  {<<r>> : r \in SavedRegions} \cup {<<r, q>> : r \in SavedRegions, q \in SavedRegions}

LoadSavedDone(r, t, saved) ==
  /\ Install(r.engine)
  /\ twin' = t.engine
  /\ last' = [Last("load", r, 0, FALSE, <<>>) EXCEPT !.saved = saved]

\* Annotate({duration, save, loadSaved: saved}), called once
LoadSaved ==
  \E saved \in SavedInputs :
    /\ last.op = "new"
    /\ calls' = calls
    /\ LoadSavedDone(load(Engine, saved), load(twin, saved), saved)

SpecLoad == Init /\ [][LoadSaved]_vars

\* ------------------------------------------------------------------------
\* The tempo estimate on its own: one tapped region holding any set of beats
\* at least MIN_BEAT_SPACING apart, and recomputeTempo applied to it
\* ------------------------------------------------------------------------
RECURSIVE Ascending(_)
Ascending(S) ==
  IF S = {} THEN <<>>
  ELSE LET m == MinOf(S) IN <<m>> \o Ascending(S \ {m})

TapTimes ==
  {Ascending(S) : S \in {T \in SUBSET (0..MaxTapTick) :
                           /\ Cardinality(T) >= 2
                           /\ \A a, b \in T : a # b => Abs(a - b) >= MIN_BEAT_SPACING}}

TappedRegion(times) ==
  NewRegion(1, 0, times[1], MaxTapTick + 1,
            [j \in 1..Len(times) |-> NewUserBeat(j, 0, j = 1, times[j], NullNum)],
            TappedTempo(NullNum, NullNum), FALSE)

InitTempo ==
  /\ \E times \in TapTimes :
       /\ regions = <<TappedRegion(times)>>
       /\ userBeatsById = [o \in 1..Len(times) |-> o]
       /\ orphans = [o \in 1..Len(times) |-> NotGone]
       /\ nextUserBeatId = Len(times)
  /\ selectedRegionId = 0
  /\ nextRegionId = 1
  /\ nextAutoBeatId = 0
  /\ viewport = [startTime |-> 0, endTime |-> 0]
  /\ twin = Engine
  /\ last = [op |-> "new", outcome |-> "ok", saves |-> 0, id |-> 0, ret |-> 0,
             time |-> 0, isTempoChange |-> FALSE, before |-> <<>>, what |-> "",
             saved |-> <<>>, passed |-> <<>>, bpm |-> 0,
             estimate |-> NoEstimate]
  /\ calls = 0

RecomputeTempo ==
  /\ last.op = "new"
  /\ regions' = <<recomputeTempo(regions[1])>>
  /\ last' = [last EXCEPT !.op = "recomputeTempo"]
  /\ twin' = [twin EXCEPT !.regions = <<recomputeTempo(twin.regions[1])>>]
  /\ UNCHANGED <<userBeatsById, orphans, selectedRegionId, nextRegionId,
                 nextUserBeatId, nextAutoBeatId, viewport, calls>>

SpecTempo == InitTempo /\ [][RecomputeTempo]_vars

\* ------------------------------------------------------------------------
\* The initial estimate on its own: one tapped region whose beats are 5 to
\* MaxDists distances apart, each distance 0.2 s, 9 s, 9.5 s or 10 s, and the
\* initialEstimate block of recomputeTempo applied to it
\* ------------------------------------------------------------------------
MaxDists == 6
DistInputs == {2, 90, 95, 100}
DistLists == UNION {[1..n -> DistInputs] : n \in 5..MaxDists}

\* beats at 0 and then one distance after the other
EstimateRegion(dists) ==
  NewRegion(1, 0, 0, SumSeq(dists) + 1,
            [j \in 1..(Len(dists) + 1) |->
               NewUserBeat(j, 0, j = 1, SumSeq(SubSeq(dists, 1, j - 1)), NullNum)],
            TappedTempo(NullNum, NullNum), FALSE)

InitEstimate ==
  /\ \E dists \in DistLists :
       /\ regions = <<EstimateRegion(dists)>>
       /\ userBeatsById = [o \in 1..(Len(dists) + 1) |-> o]
       /\ orphans = [o \in 1..(Len(dists) + 1) |-> NotGone]
       /\ nextUserBeatId = Len(dists) + 1
  /\ selectedRegionId = 0
  /\ nextRegionId = 1
  /\ nextAutoBeatId = 0
  /\ viewport = [startTime |-> 0, endTime |-> 0]
  /\ twin = Engine
  /\ last = [op |-> "new", outcome |-> "ok", saves |-> 0, id |-> 0, ret |-> 0,
             time |-> 0, isTempoChange |-> FALSE, before |-> <<>>, what |-> "",
             saved |-> <<>>, passed |-> <<>>, bpm |-> 0,
             estimate |-> NoEstimate]
  /\ calls = 0

\* recomputeTempo up to the end of its initialEstimate block
EstimateInitial ==
  /\ last.op = "new"
  /\ last' = [last EXCEPT !.op = "initialEstimate",
                          !.estimate = InitialEstimate(Dists(regions[1].userBeats))]
  /\ UNCHANGED <<regions, userBeatsById, orphans, selectedRegionId, nextRegionId,
                 nextUserBeatId, nextAutoBeatId, viewport, twin, calls>>

SpecEstimate == InitEstimate /\ [][EstimateInitial]_vars

\* ========================================================================
\* Properties
\* ========================================================================
UserBeatTimes(region) == [j \in 1..Len(region.userBeats) |-> region.userBeats[j].time]
UserBeatIds(region) == [j \in 1..Len(region.userBeats) |-> region.userBeats[j].id]

\* C1: after every addPoint / deletePoint, each region's index is its position
\* in the region list and every user beat's regionIndex is the index of the
\* region that holds it.
C1_IndicesInSync ==
  \A i \in 1..Len(regions) :
    /\ regions[i].index = i - 1
    /\ \A j \in 1..Len(regions[i].userBeats) : regions[i].userBeats[j].regionIndex = i - 1

\* a split has just moved older beats into a region that is not the first
C1_Witness ==
  /\ last.op = "addPoint" /\ last.outcome = "ok" /\ last.isTempoChange
  /\ \E i \in 2..Len(regions) :
       /\ Len(regions[i].userBeats) >= 2
       /\ regions[i].userBeats[1].id = last.id
       /\ i < Len(regions)

\* C2: after every addPoint / deletePoint the regions are time-contiguous and
\* the last region ends at the track duration.
C2_Contiguous ==
  /\ \A i \in 1..(Len(regions) - 1) : regions[i].endTime = regions[i + 1].startTime
  /\ Len(regions) > 0 => regions[Len(regions)].endTime = duration

\* C3: within each region the user beats are strictly ascending in time and
\* consecutive ones are at least MIN_BEAT_SPACING apart.
C3_SpacedAscending ==
  \A i \in 1..Len(regions) :
    \A j \in 1..(Len(regions[i].userBeats) - 1) :
      regions[i].userBeats[j + 1].time - regions[i].userBeats[j].time >= MIN_BEAT_SPACING

\* position <<i, j>> of the user beat with the given id in the region list
BeatPositions(rs, id) ==
  {<<i, j>> \in (1..Len(rs)) \X (1..MaxUserBeatIds + 1) :
     j <= Len(rs[i].userBeats) /\ rs[i].userBeats[j].id = id}

\* the immediate predecessor / successor of the beat at <<i, j>>: the
\* neighbour in its own region, otherwise the last beat of the previous
\* region / the first beat of the next region
HasPredecessor(rs, i, j) == j > 1 \/ (i > 1 /\ Len(rs[i - 1].userBeats) > 0)
PredecessorTime(rs, i, j) ==
  IF j > 1 THEN rs[i].userBeats[j - 1].time
  ELSE rs[i - 1].userBeats[Len(rs[i - 1].userBeats)].time
HasSuccessor(rs, i, j) ==
  j < Len(rs[i].userBeats) \/ (i < Len(rs) /\ Len(rs[i + 1].userBeats) > 0)
SuccessorTime(rs, i, j) ==
  IF j < Len(rs[i].userBeats) THEN rs[i].userBeats[j + 1].time
  ELSE rs[i + 1].userBeats[1].time

\* C4: the time tryMovePoint returns is at least MIN_BEAT_SPACING after the
\* immediate predecessor beat, at least MIN_BEAT_SPACING before the immediate
\* successor beat, and not past the track duration when the beat is the last
\* beat of the last region.  (The move changes no other beat, so the
\* neighbours are read in the state the call leaves.)
C4_MoveKeepsSpacing ==
  (last.op = "tryMovePoint" /\ last.outcome = "ok") =>
    \A p \in BeatPositions(regions, last.id) :
      LET i == p[1]
          j == p[2]
      IN /\ HasPredecessor(regions, i, j) =>
              last.ret - PredecessorTime(regions, i, j) >= MIN_BEAT_SPACING
         /\ HasSuccessor(regions, i, j) =>
              SuccessorTime(regions, i, j) - last.ret >= MIN_BEAT_SPACING
         /\ (i = Len(regions) /\ j = Len(regions[i].userBeats)) => last.ret <= duration

\* ids and times of a region's user beats, in order
BeatList(region) ==
  [j \in 1..Len(region.userBeats) |-> <<region.userBeats[j].id, region.userBeats[j].time>>]

\* the call about to return deletes the tempo-change anchor of region i (position i + 1 > 1)
DeletesAnchorOf(i) ==
  /\ last'.op = "deletePoint" /\ last'.outcome = "ok"
  /\ i > 1 /\ i <= Len(regions)
  /\ Len(regions[i].userBeats) > 0
  /\ regions[i].userBeats[1].id = last'.id
  /\ regions[i].userBeats[1].isTempoChange

\* C5: when deletePoint removes the tempo-change anchor of a region with
\* index > 0, the predecessor's userBeats afterwards is its former userBeats
\* followed by all former userBeats of the deleted region except the anchor.
C5_MergeKeepsBeats ==
  [][\A i \in 1..Len(regions) :
       DeletesAnchorOf(i) =>
         /\ Len(regions') = Len(regions) - 1
         /\ BeatList(regions'[i - 1]) =
              BeatList(regions[i - 1]) \o Tail(BeatList(regions[i]))]_vars

\* C6: after deletePoint(id) of a beat some region holds returns, no region's
\* userBeats holds a beat with that id.
C6_DeleteRemoves ==
  (last.op = "deletePoint" /\ last.outcome = "ok") => last.id \notin LiveIds(regions)

\* the insertion position of `time` is the very start of region 0
AtStartOfRegion0(rs, time) ==
  \/ Len(rs) = 0
  \/ /\ time < rs[1].endTime
     /\ \A j \in 1..Len(rs[1].userBeats) : time < rs[1].userBeats[j].time

\* the ids issued so far
IssuedIds == 1..nextUserBeatId

\* C7: an accepted tempo-change addPoint at the very start of region 0 puts
\* the new beat, with the given time and a fresh id, first in region 0's
\* userBeats, which grows by one; region 0 starts at that time and no region
\* is created (beyond the first one of an empty engine).
C7_TempoChangeAtStartInserts ==
  [][(/\ last'.op = "addPoint" /\ last'.outcome = "ok" /\ last'.isTempoChange
      /\ AtStartOfRegion0(regions, last'.time)) =>
       /\ Len(regions') = Max2(Len(regions), 1)
       /\ Len(regions'[1].userBeats) =
            (IF Len(regions) = 0 THEN 0 ELSE Len(regions[1].userBeats)) + 1
       /\ regions'[1].userBeats[1].time = last'.time
       /\ regions'[1].userBeats[1].id = last'.id
       /\ last'.id \notin IssuedIds
       /\ regions'[1].startTime = last'.time]_vars

\* C8: an accepted addPoint of a plain beat followed immediately by
\* deletePoint of that beat restores the region structure the addPoint
\* started from: the regions, their user beats (ids and times) and their
\* startTime and endTime.
C8_AddDeleteRestores ==
  [][(/\ last.op = "addPoint" /\ last.outcome = "ok" /\ ~last.isTempoChange
      /\ last'.op = "deletePoint" /\ last'.id = last.id) =>
       /\ last'.outcome = "ok"
       /\ Structure(regions') = last.before]_vars

\* C9: a new engine constructed from what save() returns is constructed
\* without throwing and has the same number of regions, the same user beat
\* times in each region and the same tempo type (and bpm, when fixed).
C9_SaveLoadRoundTrip ==
  [][last'.op = "load" =>
       /\ last'.outcome = "ok"
       /\ Len(regions') = Len(regions)
       /\ \A i \in 1..Len(regions) :
            /\ UserBeatTimes(regions'[i]) = UserBeatTimes(regions[i])
            /\ regions'[i].tempo.type = regions[i].tempo.type
            /\ isFixedTempo(regions[i]) => regions'[i].tempo.bpm = regions[i].tempo.bpm]_vars

\* C10: an addPoint rejected for a spacing-floor violation changes nothing:
\* regions (beats, boundaries, tempo values), the selected region, the id
\* counters and the id map are as before, and save is not invoked.
C10_SpacingRejectionChangesNothing ==
  [][(last'.op = "addPoint" /\ last'.outcome = "rejectedSpacing") =>
       /\ regions' = regions
       /\ selectedRegionId' = selectedRegionId
       /\ nextUserBeatId' = nextUserBeatId
       /\ nextRegionId' = nextRegionId
       /\ userBeatsById' = userBeatsById
       /\ last'.saves = 0]_vars

\* an addPoint has just been rejected for spacing in an engine of at least
\* two regions, the second of them selected and holding its anchor only
C10_Witness ==
  /\ last.op = "addPoint" /\ last.outcome = "rejectedSpacing"
  /\ Len(regions) >= 2
  /\ selectedRegionId = regions[2].id
  /\ Len(regions[2].userBeats) = 1
  /\ Len(regions[1].userBeats) >= 1

\* the outcomes in which addPoint returns the failure signal
Rejections == {"rejectedNoRegion", "rejectedSpacing"}

\* C11: an addPoint that is rejected, for whatever reason and also on an
\* engine without regions, leaves the region list and the selected region id
\* as they were.
C11_RejectionMutatesNothing ==
  [][(last'.op = "addPoint" /\ last'.outcome \in Rejections) =>
       /\ regions' = regions
       /\ selectedRegionId' = selectedRegionId]_vars

\* C12: deletePoint with an id that identifies no beat held by a region (never
\* issued, or the id of a beat already deleted or dropped) throws and leaves
\* every region's userBeats as it was.
C12_UnknownIdThrows ==
  [][(last'.op = "deletePoint" /\ last'.id \notin LiveIds(regions)) =>
       /\ last'.outcome = "threw"
       /\ Len(regions') = Len(regions)
       /\ \A i \in 1..Len(regions) : BeatList(regions'[i]) = BeatList(regions[i])]_vars

\* the tempo estimate, the beats' localBeatPeriod and the auto beats of every region
TempoAndProjection(rs) ==
  [i \in 1..Len(rs) |->
     [tempo |-> rs[i].tempo,
      localBeatPeriod |-> [j \in 1..Len(rs[i].userBeats) |-> rs[i].userBeats[j].localBeatPeriod],
      autoBeats |-> rs[i].autoBeats]]

\* the region's tempo is what its present beats and bounds give
TempoIsCurrent(region) ==
  IF isTappedTempo(region)
  THEN /\ region.tempo.value =
            (IF Len(region.userBeats) < 2 THEN NullNum ELSE MeanPeriodOf(region.userBeats))
       /\ region = setTimesBetweenBeats(region)
  ELSE region.tempo.phaseOffset =
         (IF Len(region.userBeats) < 2 THEN IntNum(0) ELSE PhaseOffsetOf(region))

AutoBeatTimes(region) == [k \in 1..Len(region.autoBeats) |-> region.autoBeats[k].time]

\* the region's auto beats are the projection of its present tempo into the
\* present buffered viewport
ProjectionIsCurrent(e, region) ==
  AutoBeatTimes(region) = (IF InView(e, region) THEN Placed(e, region) ELSE <<>>)

\* C13: a tryMovePoint with phase "start" or "move" invokes save zero times and
\* leaves every region's tempo, every beat's localBeatPeriod and every
\* region's auto beats as they were; one with phase "end" that returns
\* invokes save exactly once and leaves the region holding the moved beat
\* with a tempo recomputed from its beats and with auto beats projected anew.
C13_MoveSavesOnlyAtEnd ==
  [][(last'.op = "tryMovePoint") =>
       /\ last'.what \in {"start", "move"} =>
            /\ last'.saves = 0
            /\ Len(regions') = Len(regions)
            /\ TempoAndProjection(regions') = TempoAndProjection(regions)
       /\ (last'.what = "end" /\ last'.outcome = "ok") =>
            /\ last'.saves = 1
            /\ \A i \in 1..Len(regions') :
                 (\E j \in 1..Len(regions'[i].userBeats) :
                    regions'[i].userBeats[j].id = last'.id) =>
                   /\ TempoIsCurrent(regions'[i])
                   /\ ProjectionIsCurrent(Engine', regions'[i])]_vars

\* a drag in progress: the last call moved a beat with phase "move" and the
\* tempo of its region is still the one estimated before the move
C13_Witness ==
  /\ last.op = "tryMovePoint" /\ last.what = "move" /\ last.outcome = "ok" /\ last.saves = 0
  /\ \E i \in 1..Len(regions) :
       /\ \E j \in 1..Len(regions[i].userBeats) : regions[i].userBeats[j].id = last.id
       /\ Len(regions[i].userBeats) >= 2
       /\ isTappedTempo(regions[i])
       /\ regions[i].tempo.value.k = "num"
       /\ regions[i].tempo.value # MeanPeriodOf(regions[i].userBeats)

\* everything of the region list but the auto beats
WithoutAutoBeats(rs) == [i \in 1..Len(rs) |-> [rs[i] EXCEPT !.autoBeats = <<>>]]

\* C14: setViewport invokes save zero times and changes nothing of the
\* regions but their auto beats: user beats, region bounds, indices, tempo
\* and the selected region stay as they were; called with the viewport the
\* engine already has, it leaves the auto beats (ids and times) as well.
C14_ViewportOnlyProjects ==
  [][(last'.op = "setViewport") =>
       /\ last'.saves = 0
       /\ WithoutAutoBeats(regions') = WithoutAutoBeats(regions)
       /\ selectedRegionId' = selectedRegionId
       /\ userBeatsById' = userBeatsById
       /\ (viewport' = viewport) =>
            /\ regions' = regions
            /\ nextAutoBeatId' = nextAutoBeatId]_vars

\* a viewport change has just cut off projected beats: a region whose tempo
\* projects more beats over its whole length than it holds as auto beats
C14_Witness ==
  /\ last.op = "setViewport" /\ last.outcome = "ok"
  /\ viewport # [startTime |-> 0, endTime |-> 0]
  /\ \E i \in 1..Len(regions) :
       /\ Len(regions[i].userBeats) >= 2
       /\ Len(regions[i].autoBeats) >= 1
       /\ Len(computeAutoBeats(regions[i])) > Len(regions[i].autoBeats)

\* the last call is one of the operations that end in a projection, and it
\* returned after doing its work
Projected ==
  /\ last.op \in {"addPoint", "deletePoint", "tryMovePoint", "setRegionType",
                  "setRegionFixedTempo", "setViewport"}
  /\ last.op = "tryMovePoint" => last.what = "end"
  /\ last.outcome = "ok"

AutoBeatIds(region) == [k \in 1..Len(region.autoBeats) |-> region.autoBeats[k].id]

\* the step is a call on the same engine that ran the projector
ProjectorRan ==
  /\ last'.op \in {"addPoint", "deletePoint", "tryMovePoint", "setRegionType",
                   "setRegionFixedTempo", "setViewport"}
  /\ last'.op = "tryMovePoint" => last'.what = "end"
  /\ last'.outcome = "ok"

\* C16: when a call runs the projector, every region that is in the buffered
\* viewport before and after it keeps, position by position, the ids of its
\* auto beats up to the smaller of the old and the new count; auto beats
\* beyond the old count carry ids larger than any issued before, no two the
\* same; the new count is the number of projected beats in the window (a
\* surplus is cut off).  If the call changes neither the viewport nor
\* anything of the regions but their auto beats, and the auto beats were the
\* projection of the regions before the call, every region keeps exactly its
\* sequence of auto-beat ids.
C16_AutoBeatsRecycled ==
  [][ProjectorRan =>
       /\ \A i \in 1..Len(regions) : \A j \in 1..Len(regions') :
            (/\ regions[i].id = regions'[j].id
             /\ InView(Engine, regions[i])
             /\ InView(Engine', regions'[j])) =>
              LET old == AutoBeatIds(regions[i])
                  new == AutoBeatIds(regions'[j])
              IN /\ \A k \in 1..Min2(Len(old), Len(new)) : new[k] = old[k]
                 /\ \A k \in (Len(old) + 1)..Len(new) :
                      /\ new[k] > nextAutoBeatId
                      /\ new[k] <= nextAutoBeatId'
                 /\ Len(new) = Len(Placed(Engine', regions'[j]))
       /\ \A i, j \in 1..Len(regions') :
            \A k \in 1..Len(regions'[i].autoBeats) : \A l \in 1..Len(regions'[j].autoBeats) :
              (regions'[i].autoBeats[k].id > nextAutoBeatId /\ <<i, k>> # <<j, l>>)
                => regions'[i].autoBeats[k].id # regions'[j].autoBeats[l].id
       /\ (/\ viewport' = viewport
           /\ WithoutAutoBeats(regions') = WithoutAutoBeats(regions)
           /\ \A i \in 1..Len(regions) : ProjectionIsCurrent(Engine, regions[i])) =>
            \A i \in 1..Len(regions) : AutoBeatIds(regions'[i]) = AutoBeatIds(regions[i])]_vars

\* a region switched to a fixed tempo holds three auto beats, the first of
\* which is the object, with id 1, that was its only auto beat while tapped
C16_Witness ==
  /\ last.op = "setRegionType" /\ last.outcome = "ok"
  /\ \E i \in 1..Len(regions) :
       /\ isFixedTempo(regions[i])
       /\ AutoBeatIds(regions[i]) = <<1, 2, 3>>
       /\ nextAutoBeatId = 3

\* some time t has startTime <= t < endTime and lies in the closed buffered
\* viewport [drawStart, drawEnd]
Intersects(e, region) ==
  LET from == Max2(region.startTime, drawStart(e))
  IN /\ region.startTime # Undefined
     /\ from < region.endTime
     /\ from <= drawEnd(e)

\* C17: after an addPoint, deletePoint, tryMovePoint with phase "end",
\* setRegionType, setRegionFixedTempo or setViewport that ran to its end,
\* every region that has no time in common with the buffered viewport
\* [max(viewport.startTime - 30, 0), min(viewport.endTime + 30, duration)]
\* has no auto beats.
C17_OutOfViewIsEmpty ==
  Projected =>
    \A i \in 1..Len(regions) :
      ~Intersects(Engine, regions[i]) => regions[i].autoBeats = <<>>

\* the viewport has just been moved off a region whose tempo projects beats:
\* the region has no time in common with the buffered viewport and no auto beats
C17_Witness ==
  /\ last.op = "setViewport" /\ last.outcome = "ok"
  /\ \E i \in 1..Len(regions) :
       /\ ~Intersects(Engine, regions[i])
       /\ Len(computeAutoBeats(regions[i])) >= 1
       /\ regions[i].autoBeats = <<>>

\* every beat of the region lies at an integer multiple of P ticks
AtMultiplesOf(region, P) ==
  \A j \in 1..Len(region.userBeats) : region.userBeats[j].time % P = 0

\* some two consecutive beats of the region are exactly P ticks apart
HasStepOf(region, P) ==
  \E j \in 1..(Len(region.userBeats) - 1) :
    region.userBeats[j + 1].time - region.userBeats[j].time = P

\* C18 as stated: after recomputeTempo on a tapped region of at least two
\* beats, all at integer multiples of a period P, meanPeriod is P and stddev is 0.
C18_MultiplesGivePeriod ==
  \A P \in 1..MaxTapTick :
    (/\ last.op = "recomputeTempo"
     /\ Len(regions[1].userBeats) >= 2
     /\ AtMultiplesOf(regions[1], P)) =>
      /\ regions[1].tempo.value = IntNum(P)
      /\ regions[1].tempo.stddev = IntNum(0)

\* C18: after recomputeTempo on a tapped region of at least two beats, all at
\* integer multiples of a period P and some two consecutive ones exactly P
\* apart, meanPeriod is P and stddev is 0.
C18_MultiplesWithStepGivePeriod ==
  \A P \in 1..MaxTapTick :
    (/\ last.op = "recomputeTempo"
     /\ Len(regions[1].userBeats) >= 2
     /\ AtMultiplesOf(regions[1], P)
     /\ HasStepOf(regions[1], P)) =>
      /\ regions[1].tempo.value = IntNum(P)
      /\ regions[1].tempo.stddev = IntNum(0)

\* the estimate has been made on beats at multiples of 2 ticks, with one
\* step of 2 ticks and one of several periods
C18_Witness ==
  /\ last.op = "recomputeTempo"
  /\ Len(regions[1].userBeats) >= 3
  /\ AtMultiplesOf(regions[1], 2)
  /\ HasStepOf(regions[1], 2)
  /\ HasStepOf(regions[1], 6)
  /\ regions[1].tempo.value = IntNum(2)

\* C19: the object save() returns is the object returned by the engine that
\* received the same calls but no setViewport call, and the inferredBeats of
\* every region are all the beats its tempo projects between its bounds,
\* whether or not they lie in the buffered viewport.
C19_SaveIgnoresViewport ==
  /\ saveState(regions) = saveState(twin.regions)
  /\ \A i \in 1..Len(regions) :
       /\ saveState(regions)[i].inferredBeats = computeAutoBeats(regions[i])
       /\ \A k \in 1..Len(twin.regions[i].autoBeats) :
            ProjectionIsCurrent(twin, twin.regions[i]) =>
              \E l \in 1..Len(saveState(regions)[i].inferredBeats) :
                saveState(regions)[i].inferredBeats[l] = twin.regions[i].autoBeats[k].time

\* an edit has been made after the viewport was moved: the engine shows
\* fewer auto beats of some region than its twin, and the saved object
\* lists more inferred beats than the engine shows
C19_Witness ==
  /\ last.op \in {"addPoint", "deletePoint", "tryMovePoint", "setRegionType",
                  "setRegionFixedTempo"}
  /\ last.outcome = "ok" /\ last.saves = 1
  /\ viewport # twin.viewport
  /\ \E i \in 1..Len(regions) :
       /\ Len(regions[i].autoBeats) < Len(twin.regions[i].autoBeats)
       /\ Len(saveState(regions)[i].inferredBeats) > Len(regions[i].autoBeats)

\* some saved region has no marked beats, or two consecutive marked beats of
\* which the second is not later than the first
NotStrictlyAscendingOrEmpty(saved) ==
  \E i \in 1..Len(saved) :
    \/ Len(saved[i].markedBeats) = 0
    \/ \E j \in 1..(Len(saved[i].markedBeats) - 1) :
         saved[i].markedBeats[j + 1] <= saved[i].markedBeats[j]

\* C20: the constructor called with a saved object in which some region has
\* no marked beats, or marked beats that are not strictly ascending (equal
\* consecutive times included), throws and no engine comes into being.
C20_BadSavedThrows ==
  (last.op = "load" /\ NotStrictlyAscendingOrEmpty(last.saved)) =>
    /\ last.outcome = "threw"
    /\ regions = <<>>

\* the engine's own state
engineVars == <<regions, userBeatsById, orphans, selectedRegionId,
                nextRegionId, nextUserBeatId, nextAutoBeatId, viewport>>

RegionWithId(rs, id) == rs[CHOOSE i \in 1..Len(rs) : rs[i].id = id]
NoRegionWithId(rs, id) == ~(\E i \in 1..Len(rs) : rs[i].id = id)

\* the call recorded in l, made on the regions rs, is one of the three
\* cases: no region has the id, setRegionFixedTempo on a tapped region,
\* setRegionType with the type the region has
WrongKindOrMissing(rs, l) ==
  /\ l.op \in {"setRegionType", "setRegionFixedTempo"}
  /\ \/ NoRegionWithId(rs, l.id)
     \/ l.op = "setRegionFixedTempo" /\ isTappedTempo(RegionWithId(rs, l.id))
     \/ l.op = "setRegionType" /\ RegionWithId(rs, l.id).tempo.type = l.what

\* C22: setRegionType and setRegionFixedTempo return normally, change nothing
\* and do not save when no region has the id, when setRegionFixedTempo is
\* called on a tapped region, and when setRegionType asks for the type the
\* region already has.
C22_WrongKindOrMissingIsNoOp ==
  [][WrongKindOrMissing(regions, last') =>
       /\ last'.outcome = "noop"
       /\ last'.saves = 0
       /\ UNCHANGED engineVars]_vars

\* bpm, in hundredths, is in the range the tempo may have
ValidBpm(bpm) == 0 < bpm /\ bpm < 100 * MAX_TEMPO

\* C23: setRegionFixedTempo called for an existing region with a bpm that is
\* not above 0 or not below MAX_TEMPO is declined: the call returns, the bpm and the phaseOffset of
\* every region stay as they were, and the save callback is not invoked.
C23_InvalidBpmDeclined ==
  [][(/\ last'.op = "setRegionFixedTempo"
      /\ ~ValidBpm(last'.bpm)
      /\ ~NoRegionWithId(regions, last'.id)) =>
       /\ last'.outcome \in {"ok", "noop"}
       /\ last'.saves = 0
       /\ Len(regions') = Len(regions)
       /\ \A i \in 1..Len(regions) : regions'[i].tempo = regions[i].tempo]_vars

\* C24: selectedRegionId is always null or the id of a region in the list, so
\* that reading selectedRegion never throws, and assigning it the id of no
\* region returns normally and leaves it as it was.
C24_SelectionExists ==
  /\ [](selectedRegion(Engine) # "threw")
  /\ [][(/\ last'.op = "setSelectedRegionId"
           /\ last'.id # 0
           /\ NoRegionWithId(regions, last'.id)) =>
            /\ last'.outcome = "noop"
            /\ UNCHANGED engineVars]_vars

\* a region is selected although the last call tried to select an id that
\* is not in the list while other regions had been removed
C24_Witness ==
  /\ last.op = "setSelectedRegionId" /\ last.outcome = "noop"
  /\ last.id <= nextRegionId
  /\ selectedRegion(Engine) = "region"

\* the ids carried by the regions, the user beats and the auto beats in rs
RegionIds(rs) == {rs[i].id : i \in 1..Len(rs)}
AllAutoBeatIds(rs) ==
  UNION {{rs[i].autoBeats[k].id : k \in 1..Len(rs[i].autoBeats)} : i \in 1..Len(rs)}
UserBeatCount(rs) == SumSeq([i \in 1..Len(rs) |-> Len(rs[i].userBeats)])
AutoBeatCount(rs) == SumSeq([i \in 1..Len(rs) |-> Len(rs[i].autoBeats)])

\* no two objects of a kind carry the same id, and every id has been issued
\* by the generator of its kind
IdsDistinct ==
  /\ Cardinality(RegionIds(regions)) = Len(regions)
  /\ Cardinality(LiveIds(regions)) = UserBeatCount(regions)
  /\ Cardinality(AllAutoBeatIds(regions)) = AutoBeatCount(regions)
  /\ RegionIds(regions) \subseteq 1..nextRegionId
  /\ LiveIds(regions) \subseteq 1..nextUserBeatId
  /\ AllAutoBeatIds(regions) \subseteq 1..nextAutoBeatId

\* a call on the same engine: an id that appears with the call is above
\* every id issued before it
IdsFresh ==
  ~(last'.op = "load" /\ last'.outcome = "ok") =>
    /\ nextRegionId' >= nextRegionId
    /\ nextUserBeatId' >= nextUserBeatId
    /\ nextAutoBeatId' >= nextAutoBeatId
    /\ \A id \in RegionIds(regions') \ RegionIds(regions) : id > nextRegionId
    /\ \A id \in LiveIds(regions') \ LiveIds(regions) : id > nextUserBeatId
    /\ \A id \in AllAutoBeatIds(regions') \ AllAutoBeatIds(regions) : id > nextAutoBeatId

\* C25: within the life of one engine the user beats carry pairwise distinct
\* ids, so do the auto beats and so do the regions, and an object that
\* appears never carries an id that was issued before, whether or not the
\* object that carried it is gone.
C25_IdsNeverReused == []IdsDistinct /\ [][IdsFresh]_vars

\* some id of S is above an id issued earlier that S does not hold any more
HasLaterThanGone(S) == \E id \in S : \E gone \in 1..(id - 1) : gone \notin S

\* a user beat, a region and an auto beat have gone and later ones exist
C25_Witness ==
  /\ HasLaterThanGone(LiveIds(regions))
  /\ HasLaterThanGone(RegionIds(regions))
  /\ HasLaterThanGone(AllAutoBeatIds(regions))

\* the call recorded in l went past its checks and changed the engine: an
\* accepted addPoint, a deletePoint, a tryMovePoint of phase "end", a
\* setRegionType or setRegionFixedTempo that was not a no-op
Effective(l) ==
  /\ l.op \in {"addPoint", "deletePoint", "tryMovePoint", "setRegionType",
                "setRegionFixedTempo"}
  /\ l.op = "tryMovePoint" => l.what = "end"
  /\ l.outcome \in {"ok", "diverges"}

\* C26: every accepted addPoint, every deletePoint, every tryMovePoint of
\* phase "end" and every effective setRegionType or setRegionFixedTempo hands
\* the save callback exactly one object, and that object is what save()
\* returns right after the call: it is built after the mutation, the tempo
\* recompute and the projection of the call.
C26_SavesOnceAfterChange ==
  Effective(last) =>
    /\ Len(last.passed) = 1
    /\ last.passed[1] = saveState(regions)

\* C27: every call of a public operation returns or throws, whatever its
\* arguments and the state it is made in: no call is caught for ever in a
\* loop of computeAutoBeats.
C27_OperationsTerminate == last.outcome # "diverges"

\* id and time of every beat of a list of user beats
BeatKeys(ub) == [j \in 1..Len(ub) |-> <<ub[j].id, ub[j].time>>]

\* position (1-based) of the region addPoint takes as the containing one
ContainingPos(rs, time) ==
  IF Lt(time, rs[1].startTime) THEN 1
  ELSE FindIndex({k \in 1..Len(rs) : Le(rs[k].startTime, time) /\ Lt(time, rs[k].endTime)}) + 1

\* the insertion index: the index of the first beat after `time`, or the length
InsertionIndex(ub, time) ==
  IF \E k \in 1..Len(ub) : time < ub[k].time
  THEN FindIndex({k \in 1..Len(ub) : time < ub[k].time})
  ELSE Len(ub)

\* the step is an accepted addPoint of a tempo change that is not at the very
\* start of region 0
SplitStep ==
  /\ last'.op = "addPoint" /\ last'.outcome = "ok" /\ last'.isTempoChange
  /\ Len(regions) > 0
  /\ ~(/\ ContainingPos(regions, last'.time) = 1
        /\ InsertionIndex(regions[1].userBeats, last'.time) = 0)

\* what the split makes of the regions rs, c being at position pos and the
\* new beat `id` at `time` going to index insertAt: the regions after it
SplitsAt(rs, after, selected, pos, insertAt, id, time) ==
  /\ Len(after) = Len(rs) + 1
  /\ \A k \in 1..Len(rs) : after[IF k <= pos THEN k ELSE k + 1].id = rs[k].id
  /\ after[pos + 1].id \notin RegionIds(rs)
  /\ BeatKeys(after[pos + 1].userBeats)
       = <<(<<id, time>>)>> \o BeatKeys(SubSeq(rs[pos].userBeats, insertAt + 1,
                                              Len(rs[pos].userBeats)))
  /\ BeatKeys(after[pos].userBeats) = BeatKeys(SubSeq(rs[pos].userBeats, 1, insertAt))
  /\ after[pos + 1].startTime = time
  /\ after[pos].endTime = time
  /\ after[pos + 1].endTime = rs[pos].endTime
  /\ selected = after[pos + 1].id
  /\ LiveIds(rs) \subseteq LiveIds(after)

\* C28: an accepted addPoint of a tempo change that is not at the very start
\* of region 0 adds exactly one region, right after the containing region c;
\* the new region holds the new beat followed by the beats of c from the
\* insertion index on, c keeps the beats before it, the new region starts
\* and c ends at the new time, the new region ends where c ended, the new
\* region is selected, and no user beat is lost.
C28_TempoChangeSplits ==
  [][SplitStep =>
       SplitsAt(regions, regions', selectedRegionId',
                ContainingPos(regions, last'.time),
                InsertionIndex(regions[ContainingPos(regions, last'.time)].userBeats,
                               last'.time),
                last'.id, last'.time)]_vars

\* a region with beats on both sides of the new time has been split
C28_Witness ==
  /\ last.op = "addPoint" /\ last.outcome = "ok" /\ last.isTempoChange
  /\ \E i \in 1..(Len(regions) - 1) :
       /\ Len(regions[i].userBeats) > 0
       /\ Len(regions[i + 1].userBeats) > 1
       /\ regions[i + 1].userBeats[1].id = last.id
       /\ regions[i + 1].id = selectedRegionId

\* the beat `id` is the tempo-change anchor of the region at position pos > 1:
\* its first user beat, flagged isTempoChange
IsAnchorAt(rs, pos, id) ==
  /\ pos \in 2..Len(rs)
  /\ Len(rs[pos].userBeats) > 0
  /\ rs[pos].userBeats[1].id = id
  /\ rs[pos].userBeats[1].isTempoChange

\* what the merge makes of the regions rs and the selection, the region at
\* position pos being the one that goes
MergesAt(rs, selected, after, selectedAfter, pos) ==
  /\ Len(after) = Len(rs) - 1
  /\ rs[pos].id \notin RegionIds(after)
  /\ after[pos - 1].id = rs[pos - 1].id
  /\ after[pos - 1].endTime = rs[pos].endTime
  /\ after[pos - 1].startTime = rs[pos - 1].startTime
  /\ selectedAfter = (IF selected = rs[pos].id THEN rs[pos - 1].id ELSE selected)

\* C29: a deletePoint of the tempo-change anchor of a region i > 0 returns
\* with one region fewer: region i is gone, region i - 1 keeps its startTime
\* and ends where region i ended, and the selection moves to region i - 1 if
\* region i was selected and stays otherwise.
C29_AnchorDeleteMerges ==
  [][\A pos \in 2..Len(regions) :
       (last'.op = "deletePoint" /\ IsAnchorAt(regions, pos, last'.id)) =>
         /\ last'.outcome = "ok"
         /\ MergesAt(regions, selectedRegionId, regions', selectedRegionId', pos)]_vars

\* the deleted beat was the anchor of a region i > 0 that is gone; region
\* i - 1 is selected, holds a beat younger than the anchor and ends the track
C29_Witness ==
  /\ last.op = "deletePoint" /\ last.outcome = "ok"
  /\ last.id \in 1..Len(orphans)
  /\ orphans[last.id].gone /\ orphans[last.id].isTempoChange
  /\ orphans[last.id].regionIndex \in 1..Len(regions)
  /\ Len(regions) < nextRegionId
  /\ LET previous == regions[orphans[last.id].regionIndex]
     IN /\ selectedRegionId = previous.id
        /\ previous.endTime = duration
        /\ \E j \in 1..Len(previous.userBeats) : previous.userBeats[j].id > last.id

\* C30: every region after the first has a first user beat that is flagged
\* isTempoChange and whose time is the region's startTime.
C30_LaterRegionsStartAtAnchor ==
  \A i \in 2..Len(regions) :
    /\ Len(regions[i].userBeats) > 0
    /\ regions[i].userBeats[1].isTempoChange
    /\ regions[i].userBeats[1].time = regions[i].startTime

\* the anchor of a later region has been moved to another time
C30_Witness ==
  /\ last.op = "tryMovePoint" /\ last.outcome = "ok"
  /\ \E i \in 2..Len(regions) :
       /\ regions[i].userBeats[1].id = last.id
       /\ regions[i].startTime = last.ret
       /\ regions[i - 1].endTime = last.ret
       /\ Len(regions[i - 1].userBeats) > 0
       /\ last.ret > regions[i - 1].userBeats[1].time + MIN_BEAT_SPACING

\* C21: the constructor called with a saved object hands nothing to the save
\* callback, whether it throws or builds the engine.
C21_LoadNeverSaves ==
  last.op = "load" => (last.saves = 0 /\ last.passed = <<>>)

\* an engine has been built from a saved object, its tempo recomputed and its
\* auto beats projected
C21_Witness ==
  /\ last.op = "load" /\ last.outcome = "ok"
  /\ \E i \in 1..Len(regions) :
       /\ regions[i].tempo.value.k = "num"
       /\ Len(regions[i].autoBeats) > 0

\* C31: in every state reached by addPoint, deletePoint and tryMovePoint, a
\* user beat flagged isTempoChange is the first element of its region's
\* userBeats.
C31_TempoChangeOnlyFirst ==
  \A i \in 1..Len(regions) : \A j \in 2..Len(regions[i].userBeats) :
    ~regions[i].userBeats[j].isTempoChange

\* position (1-based) of the region whose userBeats holds the beat object obj
RegionOf(rs, obj) ==
  CHOOSE i \in 1..Len(rs) : \E j \in 1..Len(rs[i].userBeats) : rs[i].userBeats[j].id = obj

\* the beat object obj is the first user beat of the region that holds it
IsFirstOfRegion(rs, obj) == rs[RegionOf(rs, obj)].userBeats[1].id = obj

\* the call just made is tryMovePoint(id, ...) and id was the id of a beat
\* that a region held
MovesExisting(id) ==
  /\ last'.op = "tryMovePoint" /\ last'.id = id
  /\ userBeatsById[id] # 0
  /\ IsLive(regions, userBeatsById[id])

\* what tryMovePoint leaves behind for the beat object obj and the time ret it
\* returned; `ended` tells whether the last region ended with the track before
MovedTo(after, obj, ret, ended) ==
  /\ IsLive(after, obj)
  /\ LiveBeat(after, obj).time = ret
  /\ IsFirstOfRegion(after, obj) =>
       /\ after[RegionOf(after, obj)].startTime = ret
       /\ RegionOf(after, obj) > 1 => after[RegionOf(after, obj) - 1].endTime = ret
  /\ ended => after[Len(after)].endTime = duration

\* C32: tryMovePoint of an existing beat id returns, for every toTime and
\* phase, the time the moved beat has afterwards; if the beat is the first of
\* its region, the region's startTime and the endTime of the region before it
\* are that time, and the last region still ends with the track.
C32_MoveReturnsTimeAndKeepsBounds ==
  [][\A id \in 1..Len(userBeatsById) :
       MovesExisting(id) =>
         /\ last'.outcome = "ok"
         /\ MovedTo(regions', userBeatsById[id], last'.ret,
                    regions[Len(regions)].endTime = duration)]_vars

\* the call just completed is one that ends in onRegionsChanged
Completed(l) ==
  /\ l.outcome \notin {"threw", "diverges"}
  /\ \/ l.op \in {"addPoint", "deletePoint", "setRegionType", "load"}
     \/ l.op = "tryMovePoint" /\ l.what = "end"

\* C33: after every completed addPoint, deletePoint, tryMovePoint("end"),
\* setRegionType and load, a tapped region has tempo.value = null exactly
\* when it holds fewer than 2 user beats, and the first user beat of every
\* tapped region has localBeatPeriod = null.
C33_TappedValueNullBelowTwoBeats ==
  Completed(last) =>
    \A i \in 1..Len(regions) :
      isTappedTempo(regions[i]) =>
        /\ (regions[i].tempo.value.k = "null") <=> (Len(regions[i].userBeats) < 2)
        /\ Len(regions[i].userBeats) > 0 =>
             regions[i].userBeats[1].localBeatPeriod.k = "null"

\* a deletePoint has taken a plain beat out of a tapped region, no region has
\* ever been removed, and the region is left with one beat and no estimate
C33_Witness ==
  /\ last.op = "deletePoint" /\ last.outcome = "ok"
  /\ last.id \in 1..Len(orphans)
  /\ orphans[last.id].gone /\ ~orphans[last.id].isTempoChange
  /\ Len(regions) = nextRegionId
  /\ LET shrunk == regions[orphans[last.id].regionIndex + 1]
     IN /\ isTappedTempo(shrunk)
        /\ Len(shrunk.userBeats) = 1
        /\ shrunk.tempo.value.k = "null"
        /\ shrunk.userBeats[1].localBeatPeriod.k = "null"

\* a list of numbers in ascending order of their values
RECURSIVE InsertByValue(_, _)
InsertByValue(s, x) ==
  IF Len(s) = 0 THEN <<x>>
  ELSE IF x < Head(s) THEN <<x>> \o s
  ELSE <<Head(s)>> \o InsertByValue(Tail(s), x)

RECURSIVE SortedByValue(_)
SortedByValue(s) ==
  IF Len(s) = 0 THEN <<>>
  ELSE InsertByValue(SortedByValue(SubSeq(s, 1, Len(s) - 1)), s[Len(s)])

\* the candidates without the ceil(0.2 * count) smallest and the
\* ceil(0.2 * count) largest
WithoutExtremes(candidates) ==
  SubSeq(SortedByValue(candidates), (Len(candidates) + 4) \div 5 + 1,
         Len(candidates) - (Len(candidates) + 4) \div 5)

\* C34: with at least 5 candidate distances, the initial period estimate of
\* recomputeTempo is the mean of the candidates that are left when the
\* ceil(0.2 * count) smallest and the ceil(0.2 * count) largest by numeric
\* value are discarded.
C34_InitialEstimateIsTrimmedMean ==
  (/\ last.op = "initialEstimate"
   /\ Len(Candidates(Dists(regions[1].userBeats))) >= 5) =>
    /\ last.estimate.count > 0
    /\ Frac(last.estimate.sum, last.estimate.count)
         = Frac(SumSeq(WithoutExtremes(Candidates(Dists(regions[1].userBeats)))),
                Len(WithoutExtremes(Candidates(Dists(regions[1].userBeats)))))

\* C35: after every completed addPoint and deletePoint, every auto beat's
\* regionIndex is the index of the region whose autoBeats holds it, also when
\* a split, a merge or a removal has shifted the later regions.
C35_AutoBeatIndicesInSync ==
  \A i \in 1..Len(regions) : \A k \in 1..Len(regions[i].autoBeats) :
    regions[i].autoBeats[k].regionIndex = regions[i].index

\* C36: after every public operation, in any sequence from an empty engine,
\* every region of the region list holds at least one user beat (so that
\* recomputeTempo and recomputePhaseOffset never meet a region without beats).
C36_NoRegionWithoutBeats ==
  \A i \in 1..Len(regions) : Len(regions[i].userBeats) > 0

\* the times are in strictly ascending order
StrictlyAscending(times) ==
  \A k \in 1..(Len(times) - 1) : FracLt(times[k], times[k + 1])

\* the times userBeat.time + k * meanPeriod, k >= 1, that lie below the next
\* user beat, or below the region's end behind the last one
TimesBehind(region, j) ==
  LET ub == region.userBeats
      period == region.tempo.value
      upTo == IF j < Len(ub) THEN NumOf(ub[j + 1].time) ELSE NumOf(region.endTime)
      At(k) == FracAdd(NumOf(ub[j].time), Frac(k * period.n, period.d))
  IN {At(k) : k \in {n \in 1..(2 * duration) : FracLt(At(n), upTo)}}

TappedTimes(region) ==
  UNION {TimesBehind(region, j) : j \in 1..Len(region.userBeats)}

\* t is inside the buffered viewport: drawStart <= t < drawEnd
InDrawRange(t) == FracLe(IntNum(drawStart(Engine)), t) /\ FracLt(t, IntNum(drawEnd(Engine)))

Skeleton(rs) ==
  [i \in 1..Len(rs) |->
     [id |-> rs[i].id, index |-> rs[i].index, type |-> rs[i].tempo.type,
      offbeatsMarked |-> rs[i].offbeatsMarked,
      beats |-> [j \in 1..Len(rs[i].userBeats) |->
                   [id |-> rs[i].userBeats[j].id,
                    isTempoChange |-> rs[i].userBeats[j].isTempoChange,
                    regionIndex |-> rs[i].userBeats[j].regionIndex]]]]

\* the times and bounds of `after` differ from those of rs at most in the time
\* of the beat object obj, the startTime of the region that holds it and the
\* endTime of the region before that one
OnlyMoved(rs, after, obj) ==
  \A i \in 1..Len(rs) :
    /\ \A j \in 1..Len(rs[i].userBeats) :
         after[i].userBeats[j].time # rs[i].userBeats[j].time => rs[i].userBeats[j].id = obj
    /\ after[i].startTime # rs[i].startTime =>
         \E j \in 1..Len(rs[i].userBeats) : rs[i].userBeats[j].id = obj
    /\ after[i].endTime # rs[i].endTime =>
         /\ i < Len(rs)
         /\ \E j \in 1..Len(rs[i + 1].userBeats) : rs[i + 1].userBeats[j].id = obj

\* C38: tryMovePoint, in any phase, changes only the moved beat's time, its
\* region's startTime and the endTime of the region before it, and on phase
\* "end" the tempo and auto-beat data derived from them: the number of
\* regions, the membership and order of every region's userBeats, every other
\* user beat's time, every beat's id and isTempoChange flag and the selected
\* region stay as they were.
C38_MoveChangesOnlyTheBeat ==
  [][(last'.op = "tryMovePoint") =>
       /\ Skeleton(regions') = Skeleton(regions)
       /\ selectedRegionId' = selectedRegionId
       /\ userBeatsById' = userBeatsById
       /\ nextRegionId' = nextRegionId /\ nextUserBeatId' = nextUserBeatId
       /\ viewport' = viewport
       /\ last'.id \in 1..Len(userBeatsById) =>
            OnlyMoved(regions, regions', userBeatsById[last'.id])
       /\ last'.id \notin 1..Len(userBeatsById) => regions' = regions
       /\ last'.what # "end" =>
            /\ TempoAndProjection(regions') = TempoAndProjection(regions)
            /\ nextAutoBeatId' = nextAutoBeatId]_vars

\* a beat has been dragged to the returned time while a region other than
\* its own was selected
C38_Witness ==
  /\ last.op = "tryMovePoint" /\ last.outcome = "ok"
  /\ Len(regions) > 1
  /\ \E i \in 1..Len(regions) :
       /\ regions[i].id # selectedRegionId
       /\ \E j \in 1..Len(regions[i].userBeats) :
            /\ regions[i].userBeats[j].id = last.id
            /\ regions[i].userBeats[j].time = last.ret

====
